---- MODULE Spec2Model ----
(***************************************************************************)
(* Model of the generation orchestration core of andys-daily-factoids:     *)
(* the sliding-window rate limiters (in-memory and Redis), the cost guards *)
(* (in-memory and Redis), the generate_factoid orchestrator and the chat    *)
(* agent (run_factoid_agent, FactoidAgent.run and the message store).      *)
(*                                                                         *)
(* Time is counted in whole ticks, money in units of the fixed generation  *)
(* cost (0.1 USD = 1 unit), so that 1.0 USD = 10 units and 5.0 USD = 50.   *)
(***************************************************************************)
EXTENDS Integers, Sequences, FiniteSets, TLC

\* ------------------------------------------------------------------ bounds
MaxTime == 6        \* the clock stops advancing at MaxTime
Window == 3         \* RateLimitConfig.window_seconds of the checked config
Limit == 2          \* RateLimitConfig.limit of the checked config (>= 1)

Budget == 2         \* the budget of the guarded profile, in cost units
MaxCost == 2        \* evaluate and record are called with costs 0..MaxCost
MaxVaried == 2       \* model turns of a run that may pick any tool-call shape
MaxStored == 4       \* a chat request starts only while the session holds at
                     \* most this many messages
MaxLen == 2          \* longest text of a model response, in tokens
MaxUsage == 3       \* record is not called once the costs recorded would pass it

Buckets == {"generate:c1", "generate:c2"}
CostProfiles == {"default", "unlisted"}
\* the concurrent workers share one Redis key: every command of check addresses
\* exactly one key, so the keys of different buckets do not interact
SharedBuckets == {"generate:c1"}
Procs == {"p1", "p2"}
Time == 0..MaxTime

VARIABLES
    now,        \* the latest reading of time.time(); readings are distinct
    backend,    \* what build_rate_limiter returned: "memory" or "redis"
    buckets,    \* InMemoryRateLimiter._buckets: bucket -> deque of timestamps
    zset,       \* Redis sorted set per key rate:{bucket}:{window}: set of scores
    zexpire,    \* Redis TTL deadline of the key, -1 when the key has none
    rpc,        \* position of each worker inside RedisRateLimiter.check
    rnow,       \* the local `now` of each worker's running check (0 when idle)
    rbucket,    \* the bucket of each worker's running check
    result,     \* outcome of the check that finished last
    admitted,   \* history: bucket -> the timestamps of the checks admitted
    stored,     \* history: bucket -> the timestamps ever written to its store
    rejected,   \* history: buckets that have rejected a check
    bucket_keys,    \* the keys of InMemoryRateLimiter._buckets
    counted,    \* what the get_count call just made returned
    due         \* history: bucket -> the time the last rejected check of the
                \* bucket asked to wait for (-1 once a check is admitted)

limiterVars == <<now, backend, buckets, zset, zexpire, rpc, rnow, rbucket,
                 result, admitted, stored, rejected, bucket_keys, counted, due>>

VARIABLES
    guardKind,          \* what get_cost_guard returned: "memory" or "redis"
    profile_budgets,    \* CostGuard.profile_budgets: dict profile -> budget
    profile_usage,      \* CostGuard.profile_usage: dict profile -> usage
    redis_usage,        \* Redis keys cost_guard:{profile} -> usage (existing keys)
    decision,           \* the CostGuardDecision the call just made returned
    remaining,          \* what the remaining_budget call just made returned
    recorded,           \* history: profile -> sum of the costs recorded
    seen                \* history: profile -> usage the last evaluate of this epoch saw

costVars == <<guardKind, profile_budgets, profile_usage, redis_usage, decision,
              remaining, recorded, seen>>

VARIABLES
    api_key_set,    \* settings.OPENROUTER_API_KEY is configured
    gpc,            \* position of the running generate_factoid call
    gargs,          \* its arguments: client_hash, profile, model_key, cost_guard
    gguard,         \* usage dict of the CostGuard the call made for itself
    gdecision,      \* the CostGuardDecision of the call
    grequest,       \* the GenerationRequest row of the call
    requests,       \* the GenerationRequest rows of the calls that ended, as the
                    \* set of their contents (no call reads or writes them again)
    goutcome,       \* how the last call ended
    gtrail,         \* history: the steps the call has performed, in order
    gstart,         \* history: usage of the call's profile when the call began
    gcharges,       \* history: number of guard.record calls of the call
    successes       \* history: profile -> number of calls that returned a factoid

genVars == <<api_key_set, gpc, gargs, gguard, gdecision, grequest, requests,
             goutcome, gtrail, gstart, gcharges, successes>>

VARIABLES
    chat_store,     \* the ChatMessage rows of the session, ordered by created_at
    apc,            \* position of the running chat request
    amodel_key,     \* model_key given to run_factoid_agent ("" is None)
    aresolved,      \* resolved_model
    asearch,        \* state of the search backend during the request
    ahistory,       \* history given to run_factoid_agent
    amessages,      \* AgentState.messages of the running graph
    asteps,         \* super-steps the running graph has executed
    aerror,         \* message of the exception the first attempt raised
    aoutcome,       \* how the last run_factoid_agent call ended
    areturned,      \* the messages it returned
    aattempts,      \* history: model and input history of every FactoidAgent.run
    afetches,       \* history: catalog fetches made while resolving the model
    arate           \* the rate check of the last chat request: its outcome, the
                    \* messages stored before it and the response of a rejection

agentVars == <<chat_store, apc, amodel_key, aresolved, asearch, ahistory,
               amessages, asteps, aerror, aoutcome, areturned, aattempts,
               afetches, arate>>

VARIABLES
    cpc,            \* position of the running generate_factoid_completion call
    csupports,      \* the factoid tool is bound (runnable is not chat)
    cinvocations,   \* model invocations of the call
    cerror,         \* message of the exception the first invocation raised
    csource,        \* history: what the model built its response from
    cmessage,       \* the response message: content and tool_calls
    cresult         \* what the call returned or raised

complVars == <<cpc, csupports, cinvocations, cerror, csource, cmessage, cresult>>

VARIABLES
    mpc,            \* position of the running model resolution
    mcaller,        \* who resolves: "generator" (_resolve_model_key) or "chat"
                    \* (_resolve_chat_model_key); "none" before the first call
    mpreferred,     \* preferred_model ("" is None)
    mfetched,       \* history: fetch_openrouter_models was called
    mcatalog,       \* history: what that call gave (it raised, or a payload)
    mresult         \* what the resolution that ended last returned

resolveVars == <<mpc, mcaller, mpreferred, mfetched, mcatalog, mresult>>

VARIABLES
    wpc,            \* position of each concurrent request that shares the guard
    wprofile,       \* the profile of the request
    wcost           \* the cost it evaluates and, after a success, records

workerVars == <<wpc, wprofile, wcost>>

VARIABLES
    tool_support,   \* _MODEL_TOOL_SUPPORT: (base URL, model id) -> supports tools
    tsfetched,      \* history: base URLs (normalised) a catalog fetch succeeded for
    tsanswer        \* the model_supports_tools call that ended last: its
                    \* arguments, answer, catalog fetches and whether a fetch
                    \* for its base URL had succeeded before

cacheVars == <<tool_support, tsfetched, tsanswer>>

VARIABLES
    tnow,       \* the time.time() reading of the latest check given to both
    tmem,       \* InMemoryRateLimiter: the deque of the bucket
    tzset,      \* RedisRateLimiter: the scores of the bucket's sorted set
    tzexpire,   \* RedisRateLimiter: TTL deadline of the key (-1: no key)
    tlast       \* what the two limiters did with the latest check

twinVars == <<tnow, tmem, tzset, tzexpire, tlast>>

vars == <<limiterVars, costVars, genVars, agentVars, complVars, resolveVars,
          workerVars, cacheVars, twinVars>>

\* ----------------------------------------------------------------- helpers
Max(a, b) == IF a >= b THEN a ELSE b

Min(S) == CHOOSE x \in S : \A y \in S : x <= y

\* number of checks of bucket b admitted with a timestamp newer than t - Window
AdmittedInWindow(b, t) ==
    Cardinality({s \in admitted[b] : s > t - Window})

\* more than Window has passed at time t since the newest admitted timestamp
WindowElapsed(b, t) ==
    \A s \in admitted[b] : s + Window < t

\* the same of every timestamp written to the bucket, admitted or not
StoreElapsed(b, t) ==
    \A s \in stored[b] : s + Window < t

NoResult == [kind |-> "none", bucket |-> "", retry_after |-> 0,
             before |-> 0, elapsed |-> FALSE, quiet |-> FALSE,
             wasRejected |-> FALSE, faulted |-> FALSE,
             waited |-> FALSE, expected |-> {}]

NoCount == [kind |-> "none", bucket |-> "", value |-> 0,
            atLeast |-> 0, atMost |-> 0, elapsed |-> FALSE]

\* the oldest timestamp written to bucket b that lies in the window ending at
\* t, with the timestamp exactly Window old counted in and counted out
OldestRetained(b, t) ==
    LET oldestOf(kept) == {s \in kept : \A x \in kept : s <= x}
    IN  oldestOf({s \in stored[b] : s >= t - Window})
        \cup oldestOf({s \in stored[b] : s > t - Window})

\* the record a finished check leaves: its outcome plus what held when it ran
Outcome(kind, b, retry, t, faulted) ==
    [kind |-> kind, bucket |-> b, retry_after |-> retry,
     before |-> AdmittedInWindow(b, t), elapsed |-> WindowElapsed(b, t),
     quiet |-> StoreElapsed(b, t),
     wasRejected |-> b \in rejected, faulted |-> faulted,
     waited |-> due[b] # -1 /\ t >= due[b],
     expected |-> IF kind = "exceeded"
                  THEN {Max(o + Window - t, 0) : o \in OldestRetained(b, t)}
                  ELSE {}]

\* the time a check of bucket b that ended at time t asks to wait for
DueAfter(kind, b, retry, t, faulted) ==
    [due EXCEPT ![b] = IF kind = "exceeded" /\ ~faulted THEN t + retry
                       ELSE IF kind = "ok" THEN -1
                       ELSE @]

\* ---------------------------------------------------- InMemoryRateLimiter
\* while entries and entries[0] < window_start: entries.popleft()
RECURSIVE PruneMutant(_, _)
PruneMutant(entries, window_start) == entries

RECURSIVE Prune(_, _)
Prune(entries, window_start) ==
    IF entries # <<>> /\ Head(entries) < window_start
    THEN Prune(Tail(entries), window_start)
    ELSE entries

\* if len(entries) >= config.limit
AtLimitMutant(count, limit) == count > limit

AtLimit(count, limit) == count >= limit

\* retry_after = max(oldest + config.window_seconds - now, 0.0)
RetryAfter(oldest, window, t) == Max(oldest + window - t, 0)

MemCheckWith(b, limit) ==
    /\ backend = "memory"
    /\ now < MaxTime
    /\ now' = now + 1
    /\ LET t == now + 1
           window_start == t - Window
           entries == Prune(buckets[b], window_start)
       IN IF AtLimit(Len(entries), limit)
          THEN /\ buckets' = [buckets EXCEPT ![b] = entries]
               /\ result' =
                     Outcome("exceeded", b, RetryAfter(Head(entries), Window, t),
                             t, FALSE)
               /\ rejected' = rejected \cup {b}
               /\ due' = DueAfter("exceeded", b,
                                  RetryAfter(Head(entries), Window, t), t, FALSE)
               /\ UNCHANGED <<admitted, stored>>
          ELSE /\ buckets' = [buckets EXCEPT ![b] = Append(entries, t)]
               /\ result' = Outcome("ok", b, 0, t, FALSE)
               /\ admitted' = [admitted EXCEPT ![b] = @ \cup {t}]
               /\ stored' = [stored EXCEPT ![b] = @ \cup {t}]
               /\ due' = DueAfter("ok", b, 0, t, FALSE)
               /\ UNCHANGED rejected
    /\ bucket_keys' = bucket_keys \cup {b}
    /\ counted' = NoCount
    /\ UNCHANGED <<backend, zset, zexpire, rpc, rnow, rbucket>>

\* a check with the configuration under test
MemCheck(b) == MemCheckWith(b, Limit)

\* ------------------------------------------------------- RedisRateLimiter
\* Redis drops a key once its TTL deadline is reached
LiveSets(t) ==
    [b \in Buckets |-> IF zexpire[b] # -1 /\ zexpire[b] <= t THEN {} ELSE zset[b]]

LiveExpiry(t) ==
    [b \in Buckets |-> IF zexpire[b] # -1 /\ zexpire[b] <= t THEN -1 ELSE zexpire[b]]

\* check returns or raises: the worker is idle again
Finish(p) ==
    /\ rpc' = [rpc EXCEPT ![p] = "idle"]
    /\ rnow' = [rnow EXCEPT ![p] = 0]
    /\ rbucket' = [rbucket EXCEPT ![p] = "generate:c1"]

\* key = self._key(...); now = time.time(); window_start = now - window
RedisStart(p, b) ==
    /\ backend = "redis"
    /\ rpc[p] = "idle"
    /\ now < MaxTime
    /\ now' = now + 1
    /\ rpc' = [rpc EXCEPT ![p] = "prune"]
    /\ rnow' = [rnow EXCEPT ![p] = now + 1]
    /\ rbucket' = [rbucket EXCEPT ![p] = b]
    /\ zset' = LiveSets(now + 1)
    /\ zexpire' = LiveExpiry(now + 1)
    /\ counted' = NoCount
    /\ UNCHANGED <<backend, buckets, result, admitted, stored, rejected,
                   bucket_keys, due>>

\* pipe.zremrangebyscore(key, 0, window_start): scores <= window_start go
ZRemRangeByScore(scores, window_start) == {s \in scores : s > window_start}

\* the first pipeline executes: prune, then zcard decides the branch
RedisPruneCount(p) ==
    /\ rpc[p] = "prune"
    /\ LET b == rbucket[p]
           kept == ZRemRangeByScore(zset[b], rnow[p] - Window)
       IN /\ zset' = [zset EXCEPT ![b] = kept]
          /\ zexpire' = [zexpire EXCEPT ![b] = IF kept = {} THEN -1 ELSE @]
          /\ rpc' = [rpc EXCEPT ![p] =
                IF AtLimit(Cardinality(kept), Limit) THEN "oldest" ELSE "insert"]
    /\ counted' = NoCount
    /\ UNCHANGED <<now, backend, buckets, rnow, rbucket, result, admitted, stored,
                   rejected, bucket_keys, due>>

\* the first pipeline raises (connection trouble): except -> RateLimitExceeded(0.0);
\* the transaction may or may not have reached the server
RedisPruneCountFails(p, applied) ==
    /\ rpc[p] = "prune"
    /\ LET b == rbucket[p]
           kept == IF applied THEN ZRemRangeByScore(zset[b], rnow[p] - Window)
                   ELSE zset[b]
       IN /\ zset' = [zset EXCEPT ![b] = kept]
          /\ zexpire' = [zexpire EXCEPT ![b] = IF kept = {} THEN -1 ELSE @]
          /\ result' = Outcome("exceeded", b, 0, rnow[p], TRUE)
          /\ rejected' = rejected \cup {b}
          /\ due' = DueAfter("exceeded", b, 0, rnow[p], TRUE)
    /\ Finish(p)
    /\ counted' = NoCount
    /\ UNCHANGED <<now, backend, buckets, admitted, stored, bucket_keys>>

\* oldest = self.client.zrange(key, 0, 0, withscores=True); raise RateLimitExceeded
RedisOldest(p) ==
    /\ rpc[p] = "oldest"
    /\ LET b == rbucket[p]
           retry == IF zset[b] # {} THEN RetryAfter(Min(zset[b]), Window, rnow[p])
                    ELSE 0
       IN /\ result' = Outcome("exceeded", b, retry, rnow[p], FALSE)
          /\ rejected' = rejected \cup {b}
          /\ due' = DueAfter("exceeded", b, retry, rnow[p], FALSE)
    /\ Finish(p)
    /\ counted' = NoCount
    /\ UNCHANGED <<now, backend, buckets, zset, zexpire, admitted, stored,
                   bucket_keys>>

\* zrange raises: the call is outside any try, the Redis error leaves check
RedisOldestFails(p) ==
    /\ rpc[p] = "oldest"
    /\ result' = Outcome("error", rbucket[p], 0, rnow[p], TRUE)
    /\ Finish(p)
    /\ counted' = NoCount
    /\ UNCHANGED <<now, backend, buckets, zset, zexpire, admitted, stored, rejected,
                   bucket_keys, due>>

\* pipe.zadd(key, {str(now): now}); pipe.expire(key, window); pipe.execute()
RedisInsert(p) ==
    /\ rpc[p] = "insert"
    /\ LET b == rbucket[p]
       IN /\ zset' = [zset EXCEPT ![b] = @ \cup {rnow[p]}]
          /\ zexpire' = [zexpire EXCEPT ![b] = now + Window]
          /\ result' = Outcome("ok", b, 0, rnow[p], FALSE)
          /\ admitted' = [admitted EXCEPT ![b] = @ \cup {rnow[p]}]
          /\ stored' = [stored EXCEPT ![b] = @ \cup {rnow[p]}]
          /\ due' = DueAfter("ok", b, 0, rnow[p], FALSE)
    /\ Finish(p)
    /\ counted' = NoCount
    /\ UNCHANGED <<now, backend, buckets, rejected, bucket_keys>>

\* the second pipeline raises: outside any try, the Redis error leaves check
RedisInsertFails(p, applied) ==
    /\ rpc[p] = "insert"
    /\ LET b == rbucket[p]
       IN /\ zset' = [zset EXCEPT ![b] = IF applied THEN @ \cup {rnow[p]} ELSE @]
          /\ zexpire' = [zexpire EXCEPT ![b] = IF applied THEN now + Window ELSE @]
          /\ result' = Outcome("error", b, 0, rnow[p], TRUE)
          /\ stored' = [stored EXCEPT ![b] = IF applied THEN @ \cup {rnow[p]} ELSE @]
    /\ Finish(p)
    /\ counted' = NoCount
    /\ UNCHANGED <<now, backend, buckets, admitted, rejected, bucket_keys, due>>

\* time passes; Redis drops the keys whose TTL ran out
Tick ==
    /\ now < MaxTime
    /\ now' = now + 1
    /\ zset' = LiveSets(now + 1)
    /\ zexpire' = LiveExpiry(now + 1)
    /\ counted' = NoCount
    /\ UNCHANGED <<backend, buckets, rpc, rnow, rbucket, result, admitted, stored,
                   rejected, bucket_keys, due>>

\* self._buckets.get(bucket): the keys of the dict after the lookup
KeysAfterGetMutant(keys, b) == keys \cup {b}

KeysAfterGet(keys, b) == keys

\* the record a finished get_count leaves: its value plus what held when it ran
Counted(b, value) ==
    [kind |-> "count", bucket |-> b, value |-> value,
     atLeast |-> AdmittedInWindow(b, now),
     atMost |-> Cardinality({s \in admitted[b] : s >= now - Window}),
     elapsed |-> WindowElapsed(b, now)]

\* InMemoryRateLimiter.get_count
MemGetCount(b) ==
    /\ backend = "memory"
    /\ bucket_keys' = KeysAfterGet(bucket_keys, b)
    /\ counted' = Counted(b, IF b \in bucket_keys THEN Len(buckets[b]) ELSE 0)
    /\ UNCHANGED <<now, backend, buckets, zset, zexpire, rpc, rnow, rbucket,
                   result, admitted, stored, rejected, due>>

\* RedisRateLimiter.get_count: zcard of the key, 0 when the command raises
RedisGetCount(b, ok) ==
    /\ backend = "redis"
    /\ counted' = Counted(b, IF ok THEN Cardinality(zset[b]) ELSE 0)
    /\ UNCHANGED <<now, backend, buckets, zset, zexpire, rpc, rnow, rbucket,
                   result, admitted, stored, rejected, bucket_keys, due>>

\* ------------------------------------------------------------- CostGuard
\* dict.get(key, default)
Get(d, k, default) == IF k \in DOMAIN d THEN d[k] ELSE default

\* d[k] = v on a dict
Put(d, k, v) == [x \in DOMAIN d \cup {k} |-> IF x = k THEN v ELSE d[x]]

NoDecision == [kind |-> "none", profile |-> "", cost |-> 0, allowed |-> FALSE,
               reason |-> "", known |-> FALSE, remaining_budget |-> 0,
               used |-> 0, recorded |-> 0, usageBefore |-> 0,
               hadSeen |-> FALSE, seenBefore |-> 0]

NoRemaining == [kind |-> "none", known |-> FALSE, value |-> 0]

\* CostGuard.evaluate on the usage dict `usage`: <<allowed, reason, known, remaining>>
DecideMutant(budgets, usage, profile, expected_cost) ==
    IF profile \notin DOMAIN budgets
    THEN <<TRUE, "no-budget", FALSE, 0>>
    ELSE LET left == budgets[profile] - Get(usage, profile, 0)
         IN IF expected_cost >= left
            THEN <<FALSE, "budget-exceeded", TRUE, Max(left, 0)>>
            ELSE <<TRUE, "allowed", TRUE, left - expected_cost>>

Decide(budgets, usage, profile, expected_cost) ==
    IF profile \notin DOMAIN budgets
    THEN <<TRUE, "no-budget", FALSE, 0>>
    ELSE LET left == budgets[profile] - Get(usage, profile, 0)
         IN IF expected_cost > left
            THEN <<FALSE, "budget-exceeded", TRUE, Max(left, 0)>>
            ELSE <<TRUE, "allowed", TRUE, left - expected_cost>>

\* the sum of all costs recorded so far
RECURSIVE SumOf(_)
SumOf(d) ==
    IF DOMAIN d = {} THEN 0
    ELSE LET k == CHOOSE x \in DOMAIN d : TRUE
         IN d[k] + SumOf([x \in DOMAIN d \ {k} |-> d[x]])

TotalRecorded == SumOf(recorded)

\* RedisCostGuard: refresh the cached usage from Redis when the read succeeds
\* and the key exists; keep the cached value otherwise
RefreshedMutant(profile, readOk) ==
    IF guardKind = "redis" /\ profile \in DOMAIN redis_usage
    THEN Put(profile_usage, profile, redis_usage[profile])
    ELSE profile_usage

Refreshed(profile, readOk) ==
    IF guardKind = "redis" /\ readOk /\ profile \in DOMAIN redis_usage
    THEN Put(profile_usage, profile, redis_usage[profile])
    ELSE profile_usage

\* CostGuard.evaluate / RedisCostGuard.evaluate
CostEvaluate(profile, expected_cost, readOk) ==
    /\ guardKind = "memory" => readOk
    /\ LET usage == Refreshed(profile, readOk)
           d == Decide(profile_budgets, usage, profile, expected_cost)
           used == Get(usage, profile, 0)
       IN /\ profile_usage' = usage
          /\ decision' = [kind |-> "decided", profile |-> profile,
                          cost |-> expected_cost, allowed |-> d[1],
                          reason |-> d[2], known |-> d[3],
                          remaining_budget |-> d[4], used |-> used,
                          recorded |-> Get(recorded, profile, 0),
                          usageBefore |-> Get(profile_usage, profile, 0),
                          hadSeen |-> profile \in DOMAIN seen,
                          seenBefore |-> Get(seen, profile, 0)]
          /\ seen' = Put(seen, profile, used)
    /\ remaining' = NoRemaining
    /\ UNCHANGED <<guardKind, profile_budgets, redis_usage, recorded>>

\* CostGuard.record / RedisCostGuard.record: the in-memory dict first, then the
\* incrbyfloat+expire pipeline, whose failure is swallowed
RecordedUsageMutant(usage, profile, actual_cost) ==
    Put(usage, profile, actual_cost)

RecordedUsage(usage, profile, actual_cost) ==
    Put(usage, profile, Get(usage, profile, 0) + actual_cost)

CostRecord(profile, actual_cost, writeOk) ==
    /\ guardKind = "memory" => writeOk
    /\ TotalRecorded + actual_cost <= MaxUsage
    /\ profile_usage' = RecordedUsage(profile_usage, profile, actual_cost)
    /\ redis_usage' = IF guardKind = "redis" /\ writeOk
                      THEN RecordedUsage(redis_usage, profile, actual_cost)
                      ELSE redis_usage
    /\ recorded' = Put(recorded, profile, Get(recorded, profile, 0) + actual_cost)
    /\ decision' = NoDecision
    /\ remaining' = NoRemaining
    /\ UNCHANGED <<guardKind, profile_budgets, seen>>

\* CostGuard.remaining_budget / RedisCostGuard.remaining_budget
CostRemaining(profile, readOk) ==
    /\ guardKind = "memory" => readOk
    /\ LET usage == Refreshed(profile, readOk)
       IN /\ profile_usage' = usage
          /\ remaining' =
                IF profile \notin DOMAIN profile_budgets
                THEN [kind |-> "returned", known |-> FALSE, value |-> 0]
                ELSE [kind |-> "returned", known |-> TRUE,
                      value |-> Max(profile_budgets[profile]
                                      - Get(usage, profile, 0), 0)]
    /\ decision' = NoDecision
    /\ UNCHANGED <<guardKind, profile_budgets, redis_usage, recorded, seen>>

\* the key's TTL (ttl_seconds after the last record) runs out: the budget epoch
\* ends, Redis forgets the usage
CostKeyExpires(profile) ==
    /\ guardKind = "redis"
    /\ profile \in DOMAIN redis_usage
    /\ redis_usage' = [x \in DOMAIN redis_usage \ {profile} |-> redis_usage[x]]
    /\ seen' = [x \in DOMAIN seen \ {profile} |-> seen[x]]
    /\ decision' = NoDecision
    /\ remaining' = NoRemaining
    /\ UNCHANGED <<guardKind, profile_budgets, profile_usage, recorded>>

\* CostGuard({"default": 1.0}) as in the tests: one profile with a budget;
\* RedisCostGuard.__init__ found no key, or loaded the usage a key held
InitCost ==
    /\ guardKind \in {"memory", "redis"}
    /\ profile_budgets = [p \in {"default"} |-> Budget]
    /\ \E had \in BOOLEAN :
          /\ guardKind = "memory" => ~had
          /\ redis_usage = IF had THEN [p \in {"default"} |-> 1]
                           ELSE [p \in {} |-> 0]
          /\ \E loaded \in BOOLEAN :
                /\ ~had => loaded
                /\ profile_usage = [p \in {"default"} |-> IF had /\ loaded THEN 1 ELSE 0]
    /\ decision = NoDecision
    /\ remaining = NoRemaining
    /\ recorded = [p \in {} |-> 0]
    /\ seen = [p \in {} |-> 0]

NextCost ==
    \/ \E p \in CostProfiles, c \in 0..MaxCost, readOk \in BOOLEAN :
          CostEvaluate(p, c, readOk)
    \/ \E p \in CostProfiles, c \in 0..MaxCost, writeOk \in BOOLEAN :
          CostRecord(p, c, writeOk)
    \/ \E p \in CostProfiles, readOk \in BOOLEAN : CostRemaining(p, readOk)
    \/ \E p \in CostProfiles : CostKeyExpires(p)


\* ------------------------------------------------------- generate_factoid
UnitCost == 1       \* expected_cost = 0.1 and guard.record(profile, 0.1)

\* CostGuard({"anonymous": 1.0, "api_key": 5.0})
DefaultBudgets == [anonymous |-> 10, api_key |-> 50]

\* settings.RATE_LIMITS["factoids"][profile]["per_minute"], 1 when missing
PerMinute(profile) ==
    Get([anonymous |-> 1, api_key |-> 5], profile, 1)

Clients == {"c1"}
GenProfiles == {"anonymous", "api_key"}

\* f"generate:{client_hash}"
BucketOfMutant(client_hash) == "generate:c2"

BucketOf(client_hash) ==
    IF client_hash = "c1" THEN "generate:c1" ELSE "generate:c2"

NoArgs == [client_hash |-> "c1", profile |-> "anonymous", preferred |-> FALSE,
           cost_guard |-> FALSE]

NoRequest == [status |-> "none", error |-> FALSE]

NoGenDecision == [allowed |-> FALSE, known |-> FALSE, remaining_budget |-> 0,
                  used |-> 0, successes |-> 0]

\* guard = cost_guard or CostGuard({...}): the usage dict the call works on
GuardUsage == IF gargs.cost_guard THEN profile_usage ELSE gguard

\* the call raises or returns: its row stays in the table as it is
GenEnd(outcome, row) ==
    /\ gpc' = "idle"
    /\ goutcome' = outcome
    /\ requests' = IF row.status = "none" THEN requests ELSE requests \cup {row}

\* a caller invokes generate_factoid
GenStart(client_hash, profile, preferred, cost_guard) ==
    /\ gpc = "idle"
    /\ now < MaxTime
    /\ gpc' = "check"
    /\ gargs' = [client_hash |-> client_hash, profile |-> profile,
                 preferred |-> preferred, cost_guard |-> cost_guard]
    /\ gguard' = [p \in GenProfiles |-> 0]
    /\ gdecision' = NoGenDecision
    /\ grequest' = NoRequest
    /\ goutcome' = "running"
    /\ gtrail' = <<>>
    /\ gstart' = IF cost_guard THEN Get(profile_usage, profile, 0) ELSE 0
    /\ gcharges' = 0
    /\ UNCHANGED <<api_key_set, requests, successes, limiterVars, costVars>>

\* where the call goes after rate_limiter.check
AfterCheckMutant(kind) == "evaluate"

AfterCheck(kind) == IF kind = "ok" THEN "evaluate" ELSE "raise"

\* rate_limiter.check(f"generate:{client_hash}", RateLimitConfig(60, per_minute))
GenRateCheck ==
    /\ gpc = "check"
    /\ MemCheckWith(BucketOf(gargs.client_hash), PerMinute(gargs.profile))
    /\ gtrail' = Append(gtrail, "check")
    /\ IF AfterCheck(result'.kind) = "evaluate"
       THEN /\ gpc' = "evaluate"
            /\ UNCHANGED <<goutcome, requests>>
       ELSE GenEnd("RateLimited", grequest)
    /\ UNCHANGED <<api_key_set, gargs, gguard, gdecision, grequest, gstart,
                   gcharges, successes, costVars>>

\* where the call goes after guard.evaluate
AfterEvaluateMutant(allowed) == "key"

AfterEvaluate(allowed) == IF allowed THEN "key" ELSE "raise"

\* decision = guard.evaluate(profile, expected_cost=0.1)
GenEvaluate ==
    /\ gpc = "evaluate"
    /\ LET d == Decide(DefaultBudgets, GuardUsage, gargs.profile, UnitCost)
       IN /\ gdecision' = [allowed |-> d[1], known |-> d[3],
                           remaining_budget |-> d[4],
                           used |-> Get(GuardUsage, gargs.profile, 0),
                           successes |-> successes[gargs.profile]]
          /\ gtrail' = Append(gtrail, "evaluate")
          /\ IF AfterEvaluate(d[1]) = "key"
             THEN /\ gpc' = "key"
                  /\ UNCHANGED <<goutcome, requests>>
             ELSE GenEnd("BudgetExceeded", grequest)
    /\ UNCHANGED <<api_key_set, gargs, gguard, grequest, gstart, gcharges,
                   successes, limiterVars, costVars>>

\* if not api_key: raise GenerationFailedError(...)
GenApiKey ==
    /\ gpc = "key"
    /\ gtrail' = Append(gtrail, "key")
    /\ IF api_key_set
       THEN /\ gpc' = "resolve"
            /\ UNCHANGED <<goutcome, requests>>
       ELSE GenEnd("GenerationFailed", grequest)
    /\ UNCHANGED <<api_key_set, gargs, gguard, gdecision, grequest, gstart,
                   gcharges, successes, limiterVars, costVars>>

\* _resolve_model_key: the preferred model, or a catalog fetch (whose failure
\* falls back to DEFAULT_FACTOID_MODEL)
GenResolve ==
    /\ gpc = "resolve"
    /\ gtrail' = IF gargs.preferred THEN gtrail ELSE Append(gtrail, "fetch")
    /\ gpc' = "create"
    /\ UNCHANGED <<api_key_set, gargs, gguard, gdecision, grequest, requests,
                   goutcome, gstart, gcharges, successes, limiterVars, costVars>>

\* models.GenerationRequest.objects.create(..., status=RUNNING, ...)
GenCreate ==
    /\ gpc = "create"
    /\ grequest' = [status |-> "running", error |-> FALSE]
    /\ gtrail' = Append(gtrail, "create")
    /\ gpc' = "prepare"
    /\ UNCHANGED <<api_key_set, gargs, gguard, gdecision, requests, goutcome,
                   gstart, gcharges, successes, limiterVars, costVars>>

\* recent factoids, model_supports_tools, the prompt and the callbacks are
\* built outside the try: an exception there leaves the call as it is
GenPrepare(ok) ==
    /\ gpc = "prepare"
    /\ gtrail' = Append(gtrail, "prepare")
    /\ IF ok
       THEN /\ gpc' = "invoke"
            /\ UNCHANGED <<goutcome, requests>>
       ELSE GenEnd("Error", grequest)
    /\ UNCHANGED <<api_key_set, gargs, gguard, gdecision, grequest, gstart,
                   gcharges, successes, limiterVars, costVars>>

\* the row after generate_factoid_completion raised
FailedRequest == [status |-> "failed", error |-> TRUE]

\* try: generate_factoid_completion(...) except Exception: mark FAILED, raise
GenInvoke(ok) ==
    /\ gpc = "invoke"
    /\ gtrail' = Append(gtrail, "invoke")
    /\ IF ok
       THEN /\ gpc' = "persist"
            /\ UNCHANGED <<grequest, goutcome, requests>>
       ELSE /\ grequest' = FailedRequest
            /\ GenEnd("GenerationFailed", FailedRequest)
    /\ UNCHANGED <<api_key_set, gargs, gguard, gdecision, gstart, gcharges,
                   successes, limiterVars, costVars>>

\* the row after the factoid was persisted
SucceededRequest == [status |-> "succeeded", error |-> FALSE]

\* factoid = _persist_factoid(...), outside the try; then the row is saved as
\* SUCCEEDED, guard.record(profile, 0.1) is called and the factoid returned
GenPersist(ok) ==
    /\ gpc = "persist"
    /\ IF ok
       THEN /\ gtrail' = gtrail \o <<"persist", "record">>
            /\ grequest' = SucceededRequest
            /\ IF gargs.cost_guard
               THEN /\ profile_usage' =
                          RecordedUsage(profile_usage, gargs.profile, UnitCost)
                    /\ UNCHANGED gguard
               ELSE /\ gguard' = RecordedUsage(gguard, gargs.profile, UnitCost)
                    /\ UNCHANGED profile_usage
            /\ gcharges' = gcharges + 1
            /\ successes' = [successes EXCEPT ![gargs.profile] = @ + 1]
            /\ GenEnd("Factoid", SucceededRequest)
       ELSE /\ gtrail' = Append(gtrail, "persist")
            /\ GenEnd("Error", grequest)
            /\ UNCHANGED <<grequest, gguard, profile_usage, gcharges, successes>>
    /\ UNCHANGED <<api_key_set, gargs, gdecision, gstart, limiterVars, guardKind,
                   profile_budgets, redis_usage, decision, remaining, recorded,
                   seen>>

\* the module-level guard a caller may pass has served `prior` successful
\* anonymous generations already
InitGen ==
    /\ api_key_set \in BOOLEAN
    /\ gpc = "idle"
    /\ gargs = NoArgs
    /\ gguard = [p \in GenProfiles |-> 0]
    /\ gdecision = NoGenDecision
    /\ grequest = NoRequest
    /\ requests = {}
    /\ goutcome = "none"
    /\ gtrail = <<>>
    /\ gstart = 0
    /\ gcharges = 0
    /\ successes \in {[anonymous |-> 0, api_key |-> 0],
                      [anonymous |-> DefaultBudgets["anonymous"] - 1, api_key |-> 0]}

NextGen ==
    \/ Tick /\ UNCHANGED <<costVars, genVars>>
    \/ \E c \in Clients, p \in GenProfiles, preferred \in BOOLEAN,
          cost_guard \in BOOLEAN : GenStart(c, p, preferred, cost_guard)
    \/ GenRateCheck
    \/ GenEvaluate
    \/ GenApiKey
    \/ GenResolve
    \/ GenCreate
    \/ \E ok \in BOOLEAN : GenPrepare(ok)
    \/ \E ok \in BOOLEAN : GenInvoke(ok)
    \/ \E ok \in BOOLEAN : GenPersist(ok)


\* ------------------------------------------------------------- chat agent
\* _get_fallback_model()
FallbackModel == "openai/gpt-4o-mini"

\* settings.FACTOID_AGENT_DEFAULT_MODEL
AgentDefaultModel == "openai/gpt-5-mini"

\* the entries a catalog payload may hold: model id and whether its
\* supported_parameters name "tools"
CatalogItems ==
    { [id |-> "openai/gpt-4o-mini", tools |-> TRUE],
      [id |-> "vendor/chat:free", tools |-> TRUE],
      [id |-> "vendor/plain", tools |-> FALSE] }

\* outcomes of fetch_openrouter_models: it raises, or returns a payload
Catalogs ==
    {[ok |-> FALSE, data |-> {}]}
        \cup {[ok |-> TRUE, data |-> d] : d \in SUBSET CatalogItems}

\* model_id.endswith(":free")
IsFree(id) == id = "vendor/chat:free"

\* any(provider in model_id for provider in ["openai/", "anthropic/", ...])
KnownProvider(id) == id = "openai/gpt-4o-mini"

\* _random_tool_supporting_model: the ids random.choice may return
ToolSupportingCandidates(catalog) ==
    IF ~catalog.ok THEN {}
    ELSE LET tool_candidates == {item.id : item \in {i \in catalog.data : i.tools}}
             preferred_candidates ==
                 {id \in tool_candidates : ~IsFree(id) /\ KnownProvider(id)}
         IN  IF preferred_candidates # {} THEN preferred_candidates
             ELSE tool_candidates

\* _resolve_chat_model_key: the model keys it may return
ResolveChatMutant(preferred_model, catalog) ==
    IF ToolSupportingCandidates(catalog) # {}
    THEN ToolSupportingCandidates(catalog)
    ELSE {AgentDefaultModel}

ResolveChat(preferred_model, catalog) ==
    IF preferred_model # "" THEN {preferred_model}
    ELSE IF ToolSupportingCandidates(catalog) # {}
         THEN ToolSupportingCandidates(catalog)
         ELSE {AgentDefaultModel}

\* messages as the agent sees them: role, tool calls (of a model turn), the
\* tool_call_id and error marker (of a tool result)
HumanMessage == [role |-> "human", calls |-> <<>>, key |-> 0, error |-> FALSE]

AIMessage(calls) == [role |-> "ai", calls |-> calls, key |-> 0, error |-> FALSE]

ToolMessage(id, err) == [role |-> "tool", calls |-> <<>>, key |-> id, error |-> err]

\* the i-th call of the model turn at position pos of the history
ToolCall(pos, i, name) == [id |-> 2 * pos + i, name |-> name]

\* the tool-call lists a model turn at position pos may carry, besides none
CallShapes(pos) ==
    { <<ToolCall(pos, 1, "web_search")>>,
      <<ToolCall(pos, 1, "lookup")>>,
      <<ToolCall(pos, 1, "web_search"), ToolCall(pos, 2, "lookup")>> }

\* messages of the exceptions a model invocation raises, as word lists
ErrorMessages ==
    { <<"Rate", "limit", "exceeded">>,
      <<"Error", "code", "429">>,
      <<"model", "temporarily", "unavailable">>,
      <<"quota", "exhausted">>,
      <<"connection", "refused">>,
      <<"limit", "on", "rate">> }

\* str.lower on one word
Lower(word) ==
    CASE word = "Rate" -> "rate"
      [] word = "Error" -> "error"
      [] OTHER -> word

LowerAll(msg) == [i \in 1..Len(msg) |-> Lower(msg[i])]

\* keyword in error_msg
Contains(msg, keyword) ==
    \E i \in 1..(Len(msg) - Len(keyword) + 1) :
        SubSeq(msg, i, i + Len(keyword) - 1) = keyword

Keywords == { <<"rate", "limit">>, <<"429">>, <<"temporarily">>, <<"quota">> }

\* any(keyword in error_msg for keyword in [...]) on str(exc).lower()
IsThrottling(msg) == \E keyword \in Keywords : Contains(LowerAll(msg), keyword)

\* serialise_message: the role and payload stored for a message
SerialiseMessageMutant(message) ==
    CASE message.role = "human" -> [role |-> "user", payload |-> [text |-> "t"]]
      [] message.role = "ai" -> [role |-> "assistant", payload |-> [content |-> "c"]]
      [] OTHER ->
            [role |-> "tool",
             payload |-> [content |-> IF message.error THEN "error" ELSE "c",
                          tool_call_id |-> message.key]]

SerialiseMessage(message) ==
    CASE message.role = "human" -> [role |-> "user", payload |-> [text |-> "t"]]
      [] message.role = "ai" ->
            [role |-> "assistant",
             payload |-> IF message.calls # <<>>
                         THEN [content |-> "c", tool_calls |-> message.calls]
                         ELSE [content |-> "c"]]
      [] OTHER ->
            [role |-> "tool",
             payload |-> [content |-> IF message.error THEN "error" ELSE "c",
                          tool_call_id |-> message.key]]

\* _chat_message_to_langchain
ChatMessageToLangchain(row) ==
    CASE row.role = "user" -> HumanMessage
      [] row.role = "assistant" -> AIMessage(Get(row.payload, "tool_calls", <<>>))
      [] OTHER -> ToolMessage(Get(row.payload, "tool_call_id", 0),
                              Get(row.payload, "content", "") = "error")

\* history_to_messages
HistoryToMessages(rows) == [i \in 1..Len(rows) |-> ChatMessageToLangchain(rows[i])]

\* the config FactoidAgent.run passes to graph.invoke
InvokeConfig ==
    [configurable |-> [recursion_limit |-> 6], run_name |-> "factoid_chat"]

\* the recursion limit a graph runs under when its config names none
DefaultRecursionLimit == 25

\* the limit graph.invoke reads: the config's own "recursion_limit" key
RecursionLimit(config) ==
    IF "recursion_limit" \in DOMAIN config
    THEN config.recursion_limit
    ELSE DefaultRecursionLimit

\* message of the GraphRecursionError
RecursionMessage == <<"recursion", "limit", "of", "25", "reached">>

\* states of the search backend: it answers, it raises, no key is configured
SearchStates == {"ok", "raises", "unconfigured"}

\* model keys a chat request may name ("" is no preference)
ModelKeys == {"", "openai/gpt-4o-mini", "vendor/chat:free"}

NoAttempts == <<>>

\* ChatMessageCreateView.post: store the user message, rebuild the history
\* from the stored rows and call run_factoid_agent
ChatPost(model_key, search) ==
    /\ apc = "idle"
    /\ Len(chat_store) <= MaxStored
    /\ chat_store' = Append(chat_store, SerialiseMessage(HumanMessage))
    /\ ahistory' = HistoryToMessages(chat_store')
    /\ amodel_key' = model_key
    /\ asearch' = search
    /\ apc' = "resolve"
    /\ aresolved' = ""
    /\ amessages' = <<>>
    /\ asteps' = 0
    /\ aerror' = <<>>
    /\ aoutcome' = "running"
    /\ areturned' = <<>>
    /\ aattempts' = NoAttempts
    /\ afetches' = 0
    /\ arate' = [kind |-> "ok", retry_after |-> 0, before |-> Len(chat_store),
                 status |-> 0, payload_retry_after |-> 0, checkout |-> FALSE]

\* the retry_after values a RateLimitExceeded of the chat bucket may carry
RetryValues == 0..Window

\* create_chat_checkout_session: no gateway is configured (None), a checkout
\* session is created, or the gateway call raises
CheckoutOutcomes == {"none", "created", "raises"}

\* _rate_limit_response: the 429 payload, unless building the checkout raises
\* and the request ends with the server error
RateLimitResponse(retry_after, checkout) ==
    IF checkout = "raises"
    THEN [status |-> 500, payload_retry_after |-> 0, checkout |-> FALSE]
    ELSE [status |-> 429, payload_retry_after |-> retry_after,
          checkout |-> checkout = "created"]

\* ChatMessageCreateView.post when _rate_limiter.check raises RateLimitExceeded
ChatPostRejected(retry_after, checkout) ==
    /\ apc = "idle"
    /\ Len(chat_store) <= MaxStored
    /\ LET response == RateLimitResponse(retry_after, checkout)
       IN  arate' = [kind |-> "exceeded", retry_after |-> retry_after,
                     before |-> Len(chat_store), status |-> response.status,
                     payload_retry_after |-> response.payload_retry_after,
                     checkout |-> response.checkout]
    /\ ahistory' = <<>>
    /\ amessages' = <<>>
    /\ asteps' = 0
    /\ aerror' = <<>>
    /\ aoutcome' = "rejected"
    /\ areturned' = <<>>
    /\ aattempts' = NoAttempts
    /\ afetches' = 0
    /\ aresolved' = ""
    /\ UNCHANGED <<chat_store, apc, amodel_key, asearch>>

\* run_factoid_agent up to the first FactoidAgent.run: resolve the model and
\* start the graph on a copy of the history
AgentResolve(catalog) ==
    /\ apc = "resolve"
    /\ aresolved' \in ResolveChat(amodel_key, catalog)
    /\ afetches' = IF amodel_key # "" THEN 0 ELSE 1
    /\ aattempts' = <<[model |-> aresolved', input |-> ahistory]>>
    /\ amessages' = ahistory
    /\ asteps' = 0
    /\ apc' = "agent"
    /\ UNCHANGED <<chat_store, amodel_key, asearch, ahistory, arate, aerror, aoutcome,
                   areturned>>

\* the except branch retries on the fallback model
ShouldFallbackMutant(attempts, msg, resolved) ==
    IsThrottling(msg) /\ FallbackModel # resolved

ShouldFallback(attempts, msg, resolved) ==
    /\ attempts = 1
    /\ IsThrottling(msg)
    /\ FallbackModel # resolved

\* run_factoid_agent's handling of an exception out of FactoidAgent.run
AgentFails(msg) ==
    IF ShouldFallback(Len(aattempts), msg, aresolved)
    THEN /\ aattempts' = Append(aattempts,
                                [model |-> FallbackModel, input |-> ahistory])
         /\ aerror' = msg
         /\ amessages' = ahistory
         /\ asteps' = 0
         /\ apc' = "agent"
         /\ UNCHANGED <<chat_store, aoutcome, areturned>>
    ELSE /\ aerror' = IF Len(aattempts) = 1 THEN msg ELSE aerror
         /\ aoutcome' = "raised"
         /\ apc' = "idle"
         /\ UNCHANGED <<chat_store, amessages, asteps, areturned, aattempts>>

\* node "agent": the model invocation raises
AgentModelFails(msg) ==
    /\ apc = "agent"
    /\ asteps < RecursionLimit(InvokeConfig)
    /\ AgentFails(msg)
    /\ UNCHANGED <<amodel_key, aresolved, asearch, ahistory, arate, afetches>>

\* the rows _run_agent_and_persist stores for the new messages
Persisted(history, updated_messages) ==
    LET new_messages == SubSeq(updated_messages, Len(history) + 1,
                               Len(updated_messages))
    IN  [i \in 1..Len(new_messages) |-> SerialiseMessage(new_messages[i])]

\* node "agent": the model answers without tool calls, tools_condition ends
\* the graph, run returns the messages and the new ones are stored
AgentModelAnswers ==
    /\ apc = "agent"
    /\ asteps < RecursionLimit(InvokeConfig)
    /\ amessages' = Append(amessages, AIMessage(<<>>))
    /\ asteps' = asteps + 1
    /\ areturned' = amessages'
    /\ chat_store' = chat_store \o Persisted(ahistory, amessages')
    /\ aoutcome' = "returned"
    /\ apc' = "idle"
    /\ UNCHANGED <<amodel_key, aresolved, asearch, ahistory, arate, aerror, aattempts,
                   afetches>>

\* every model turn of msgs after position start asked for one web_search
OnlySearches(msgs, start) ==
    \A i \in (start + 1)..Len(msgs) :
        msgs[i].role = "ai" => msgs[i].calls = <<ToolCall(i, 1, "web_search")>>

\* node "agent": the model asks for tools, tools_condition routes to "tools";
\* the model chooses its calls freely in its first MaxVaried turns, and goes
\* on for more turns only as the model that asks for one web_search each time
AgentModelCallsTools(calls) ==
    /\ apc = "agent"
    /\ asteps < RecursionLimit(InvokeConfig)
    /\ \/ asteps \div 2 < MaxVaried
       \/ /\ calls = <<ToolCall(Len(amessages) + 1, 1, "web_search")>>
          /\ OnlySearches(amessages, Len(ahistory))
    /\ amessages' = Append(amessages, AIMessage(calls))
    /\ asteps' = asteps + 1
    /\ apc' = "tools"
    /\ UNCHANGED <<chat_store, amodel_key, aresolved, asearch, ahistory, arate, aerror,
                   aoutcome, areturned, aattempts, afetches>>

\* the tool result carries an error marker: WebSearchTool._run returns an
\* "error" payload when the backend raises or is not configured, and the tool
\* node answers a call of an unregistered tool with an error message
ToolFailsMutant(name, search) == FALSE

ToolFails(name, search) == IF name = "web_search" THEN search # "ok" ELSE TRUE

\* node "tools": one tool message per call of the last model turn
AgentTools ==
    /\ apc = "tools"
    /\ asteps < RecursionLimit(InvokeConfig)
    /\ LET calls == amessages[Len(amessages)].calls
       IN  amessages' = amessages \o
               [i \in 1..Len(calls) |->
                   ToolMessage(calls[i].id, ToolFails(calls[i].name, asearch))]
    /\ asteps' = asteps + 1
    /\ apc' = "agent"
    /\ UNCHANGED <<chat_store, amodel_key, aresolved, asearch, ahistory, arate, aerror,
                   aoutcome, areturned, aattempts, afetches>>

\* the graph has used its steps and another node is due: GraphRecursionError
AgentRecursionLimit ==
    /\ apc \in {"agent", "tools"}
    /\ asteps >= RecursionLimit(InvokeConfig)
    /\ AgentFails(RecursionMessage)
    /\ UNCHANGED <<amodel_key, aresolved, asearch, ahistory, arate, afetches>>

InitAgent ==
    /\ chat_store = <<>>
    /\ apc = "idle"
    /\ amodel_key = ""
    /\ aresolved = ""
    /\ asearch = "ok"
    /\ ahistory = <<>>
    /\ amessages = <<>>
    /\ asteps = 0
    /\ aerror = <<>>
    /\ aoutcome = "none"
    /\ areturned = <<>>
    /\ aattempts = NoAttempts
    /\ afetches = 0
    /\ arate = [kind |-> "none", retry_after |-> 0, before |-> 0, status |-> 0,
                payload_retry_after |-> 0, checkout |-> FALSE]

NextAgent ==
    \/ \E model_key \in ModelKeys, search \in SearchStates :
          ChatPost(model_key, search)
    \/ \E retry_after \in RetryValues, checkout \in CheckoutOutcomes :
          ChatPostRejected(retry_after, checkout)
    \/ \E catalog \in Catalogs : AgentResolve(catalog)
    \/ \E msg \in ErrorMessages : AgentModelFails(msg)
    \/ AgentModelAnswers
    \/ \E calls \in CallShapes(Len(amessages) + 1) : AgentModelCallsTools(calls)
    \/ AgentTools
    \/ AgentRecursionLimit

\* ----------------------------------------------- generate_factoid_completion
\* Strings are token lists: "a" is a letter, " " and "NL" (a newline) are
\* whitespace, "FENCE" is a code fence of three backticks, "x20" and "x300"
\* are runs of 20 and 300 letters; "{", "}", "QUOTE" (a double quote), "null"
\* and the key names are the tokens of JSON text.
Letters == {"a", " ", "FENCE"}

\* len(s)
Width(token) ==
    CASE token = "FENCE" -> 3
      [] token = "json" -> 4
      [] token = "x20" -> 20
      [] token = "x300" -> 300
      [] OTHER -> 1

RECURSIVE StrLen(_)
StrLen(str) == IF str = <<>> THEN 0 ELSE Width(Head(str)) + StrLen(Tail(str))

IsSpace(token) == token \in {" ", "NL"}

\* str.strip()
RECURSIVE LStrip(_)
LStrip(str) ==
    IF str # <<>> /\ IsSpace(Head(str)) THEN LStrip(Tail(str)) ELSE str

RECURSIVE RStrip(_)
RStrip(str) ==
    IF str # <<>> /\ IsSpace(str[Len(str)])
    THEN RStrip(SubSeq(str, 1, Len(str) - 1))
    ELSE str

Strip(str) == RStrip(LStrip(str))

\* JSON values of the fields: a string, or null
Str(tokens) == [str |-> TRUE, s |-> tokens]

Null == [str |-> FALSE, s |-> <<>>]

FieldNames == <<"text", "subject", "emoji">>

\* json.dumps of an object that holds some of the three fields
JsonValue(value) ==
    IF value.str THEN <<"QUOTE">> \o value.s \o <<"QUOTE">> ELSE <<"null">>

JsonMember(obj, name) ==
    IF name \in DOMAIN obj THEN <<name>> \o JsonValue(obj[name]) ELSE <<>>

JsonDumps(obj) ==
    <<"{">> \o JsonMember(obj, "text") \o JsonMember(obj, "subject")
            \o JsonMember(obj, "emoji") \o <<"}">>

\* index of the first token of str at or after position from that is in set,
\* 0 if there is none
RECURSIVE Find(_, _, _)
Find(str, set, from) ==
    IF from > Len(str) THEN 0
    ELSE IF str[from] \in set THEN from
    ELSE Find(str, set, from + 1)

NotJson == [ok |-> FALSE, obj |-> <<>>]

\* the members of a JSON object text, read left to right
RECURSIVE JsonMembers(_, _)
JsonMembers(body, acc) ==
    IF body = <<>> THEN [ok |-> TRUE, obj |-> acc]
    ELSE IF Len(body) < 2 \/ body[1] \notin {"text", "subject", "emoji"}
    THEN NotJson
    ELSE IF body[2] = "null"
    THEN JsonMembers(SubSeq(body, 3, Len(body)), Put(acc, body[1], Null))
    ELSE IF body[2] = "QUOTE"
    THEN LET close == Find(body, {"QUOTE"}, 3)
         IN  IF close = 0 THEN NotJson
             ELSE JsonMembers(SubSeq(body, close + 1, Len(body)),
                              Put(acc, body[1], Str(SubSeq(body, 3, close - 1))))
    ELSE NotJson

\* json.loads: the object, or not ok for a JSONDecodeError
JsonLoads(str) ==
    IF Len(str) >= 2 /\ str[1] = "{" /\ str[Len(str)] = "}"
    THEN JsonMembers(SubSeq(str, 2, Len(str) - 1), <<>>)
    ELSE NotJson

\* the message content: a string, or a list of text parts
StrContent(str) == [is_list |-> FALSE, parts |-> <<str>>]

ListContent(parts) == [is_list |-> TRUE, parts |-> parts]

\* "".join(parts)
RECURSIVE Join(_)
Join(parts) == IF parts = <<>> THEN <<>> ELSE Head(parts) \o Join(Tail(parts))

\* position after the whitespace that starts at from, not beyond limit
RECURSIVE SkipSpace(_, _, _)
SkipSpace(str, from, limit) ==
    IF from < limit /\ IsSpace(str[from])
    THEN SkipSpace(str, from + 1, limit)
    ELSE from

\* re.search(r"```(?:json)?\s*([\s\S]*?)```", content): group 1, if it matches
FencedMatch(str) ==
    LET open == Find(str, {"FENCE"}, 1)
        close == IF open = 0 THEN 0 ELSE Find(str, {"FENCE"}, open + 1)
        after == IF close > open + 1 /\ str[open + 1] = "json"
                 THEN open + 2 ELSE open + 1
        start == SkipSpace(str, after, close)
    IN  IF close = 0 THEN [found |-> FALSE, group |-> <<>>]
        ELSE [found |-> TRUE, group |-> SubSeq(str, start, close - 1)]

\* _normalise_content
NormaliseContent(content) ==
    LET str == IF content.is_list THEN Join(content.parts) ELSE content.parts[1]
        fenced_match == FencedMatch(str)
    IN  IF fenced_match.found THEN Strip(fenced_match.group) ELSE Strip(str)

\* results of an extraction: the payload, or the ValueError
Payload(path, text, subject, emoji) ==
    [kind |-> "payload", path |-> path, text |-> text, subject |-> subject,
     emoji |-> emoji]

ValueError(path) ==
    [kind |-> "invalid", path |-> path, text |-> <<>>, subject |-> <<>>,
     emoji |-> <<>>]

\* FactoidPayload.model_validate: three fields, each a string
Validates(obj) == \A name \in {"text", "subject", "emoji"} :
                      name \in DOMAIN obj /\ obj[name].str

\* payload.text.strip(), payload.subject.strip(), payload.emoji.strip()
Stripped(path, obj) ==
    Payload(path, Strip(obj["text"].s), Strip(obj["subject"].s),
            Strip(obj["emoji"].s))

\* _extract_factoid_fields
ExtractFactoidFieldsMutant(message) ==
    LET data == JsonLoads(NormaliseContent(message.content))
    IN  IF ~data.ok THEN ValueError("content")
        ELSE IF ~("text" \in DOMAIN data.obj /\ data.obj["text"].str)
        THEN ValueError("content")
        ELSE Payload("content", Strip(data.obj["text"].s), <<>>, <<>>)

ExtractFactoidFields(message) ==
    LET data == JsonLoads(NormaliseContent(message.content))
    IN  IF ~data.ok THEN ValueError("content")
        ELSE IF ~Validates(data.obj) THEN ValueError("content")
        ELSE Stripped("content", data.obj)

FactoidToolNames == {"make_factoid", "get_factoid"}

\* _resolve_tool_call_args: the argument object, or not ok for a ValueError
ResolveToolCallArgs(tool_call) ==
    CASE tool_call.args.kind = "dict" -> [ok |-> TRUE, obj |-> tool_call.args.obj]
      [] tool_call.args.kind = "str" -> JsonLoads(tool_call.args.str)
      [] OTHER -> NotJson

\* _extract_factoid_from_tool_call: the first call with a factoid tool name
\* decides
RECURSIVE ExtractFromCalls(_)
ExtractFromCalls(tool_calls) ==
    IF tool_calls = <<>> THEN ValueError("tool")
    ELSE IF Head(tool_calls).name \notin FactoidToolNames
    THEN ExtractFromCalls(Tail(tool_calls))
    ELSE LET args == ResolveToolCallArgs(Head(tool_calls))
         IN  IF ~args.ok THEN ValueError("tool")
             ELSE IF ~Validates(args.obj) THEN ValueError("tool")
             ELSE Stripped("tool", args.obj)

ExtractFactoidFromToolCall(message) == ExtractFromCalls(message.tool_calls)

\* try the tool call, except ValueError: the content
Extract(message) ==
    IF ExtractFactoidFromToolCall(message).kind = "payload"
    THEN ExtractFactoidFromToolCall(message)
    ELSE ExtractFactoidFields(message)

\* ---- the responses a model may give
Missing == [str |-> FALSE, s |-> <<"missing">>]

Strings(n) == UNION {[1..k -> Letters] : k \in 0..n}

TextOptions == {Str(str) : str \in Strings(MaxLen)} \cup {Null, Missing}

SubjectOptions == {Str(<<"a">>), Str(<<"x300">>), Str(<<>>), Missing}

EmojiOptions == {Str(<<"a">>), Str(<<"x20">>), Str(<<" ">>), Missing}

\* the object with the fields that are not missing
ObjectOf(text, subject, emoji) ==
    LET all == [text |-> text, subject |-> subject, emoji |-> emoji]
    IN  [name \in {n \in DOMAIN all : all[n] # Missing} |-> all[name]]

\* the objects a response is built from: every text with a plain subject and
\* emoji, and every subject and emoji with a plain text
Objects ==
    {ObjectOf(t, Str(<<"a">>), Str(<<"a">>)) : t \in TextOptions}
        \cup {ObjectOf(Str(<<"a">>), s, e) : s \in SubjectOptions,
                                             e \in EmojiOptions}

SampleObject == ObjectOf(Str(<<"a">>), Str(<<"a">>), Str(<<"a">>))

Without(obj, name) == [n \in DOMAIN obj \ {name} |-> obj[n]]

ContentEncodings == {"plain", "fenced", "fenced_json", "parts", "free", "empty"}

ToolEncodings == {"none", "dict", "str", "partial", "sample", "other",
                  "partial_then_sample"}

\* the content of a response that carries obj in the given encoding
EncodeContent(obj, encoding) ==
    CASE encoding = "plain" -> StrContent(JsonDumps(obj))
      [] encoding = "fenced" ->
            StrContent(<<"a", " ", "FENCE", "NL">> \o JsonDumps(obj)
                           \o <<"NL", "FENCE">>)
      [] encoding = "fenced_json" ->
            StrContent(<<"FENCE", "json", "NL">> \o JsonDumps(obj)
                           \o <<"NL", "FENCE", "NL">>)
      [] encoding = "parts" ->
            ListContent(<<SubSeq(JsonDumps(obj), 1, 1),
                          SubSeq(JsonDumps(obj), 2, Len(JsonDumps(obj)))>>)
      [] encoding = "free" -> StrContent(<<"a", " ", "a">>)
      [] OTHER -> StrContent(<<>>)

DictArgs(obj) == [kind |-> "dict", obj |-> obj, str |-> <<>>]

StrArgs(obj) == [kind |-> "str", obj |-> <<>>, str |-> JsonDumps(obj)]

\* the tool_calls of a response
EncodeToolCalls(obj, encoding) ==
    CASE encoding = "dict" -> <<[name |-> "make_factoid", args |-> DictArgs(obj)]>>
      [] encoding = "str" -> <<[name |-> "get_factoid", args |-> StrArgs(obj)]>>
      [] encoding = "partial" ->
            <<[name |-> "make_factoid", args |-> DictArgs(Without(obj, "emoji"))]>>
      [] encoding = "sample" ->
            <<[name |-> "web_search", args |-> DictArgs(obj)],
              [name |-> "make_factoid", args |-> DictArgs(SampleObject)]>>
      [] encoding = "other" -> <<[name |-> "web_search", args |-> DictArgs(obj)]>>
      [] encoding = "partial_then_sample" ->
            <<[name |-> "make_factoid", args |-> DictArgs(Without(obj, "emoji"))],
              [name |-> "make_factoid", args |-> DictArgs(SampleObject)]>>
      [] OTHER -> <<>>

Response(source) ==
    [content |-> EncodeContent(source.obj, source.content),
     tool_calls |-> EncodeToolCalls(source.obj, source.tool)]

NoSource == [obj |-> SampleObject, content |-> "empty", tool |-> "none"]

NoCompletion ==
    [kind |-> "none", path |-> "", text |-> <<>>, subject |-> <<>>, emoji |-> <<>>]

\* messages of the exceptions runnable.invoke raises: throttled, or not
CompletionErrors == { <<"Error", "code", "429">>, <<"connection", "refused">> }

\* Factoid.subject and Factoid.emoji: max_length
SubjectMax == 255

EmojiMax == 16

Sources == [obj : Objects, content : ContentEncodings, tool : ToolEncodings]

Raised == [kind |-> "error", path |-> "", text |-> <<>>, subject |-> <<>>,
           emoji |-> <<>>]

\* generate_factoid_completion is called; supports_tools decides whether the
\* factoid tool is bound
ComplStart(supports_tools) ==
    /\ cpc = "idle"
    /\ cpc' = "invoke"
    /\ csupports' = supports_tools
    /\ cinvocations' = 0
    /\ cerror' = <<>>
    /\ csource' = NoSource
    /\ cmessage' = Response(NoSource)
    /\ cresult' = NoCompletion

\* after runnable.invoke raised: chat.invoke when the tool was bound
RetriesPlainMutant(supports_tools) == TRUE

RetriesPlain(supports_tools) == supports_tools

\* runnable.invoke(messages) raises
ComplInvokeRaises(msg) ==
    /\ cpc = "invoke"
    /\ cinvocations' = cinvocations + 1
    /\ cerror' = msg
    /\ IF RetriesPlain(csupports)
       THEN cpc' = "retry" /\ UNCHANGED cresult
       ELSE cpc' = "idle" /\ cresult' = Raised
    /\ UNCHANGED <<csupports, csource, cmessage>>

\* chat.invoke(messages) in the except branch raises: the error propagates
ComplRetryRaises ==
    /\ cpc = "retry"
    /\ cinvocations' = cinvocations + 1
    /\ cpc' = "idle"
    /\ cresult' = Raised
    /\ UNCHANGED <<csupports, cerror, csource, cmessage>>

\* an invocation returns a message
ComplInvokeReturns(source) ==
    /\ cpc \in {"invoke", "retry"}
    /\ cinvocations' = cinvocations + 1
    /\ csource' = source
    /\ cmessage' = Response(source)
    /\ cpc' = "extract"
    /\ UNCHANGED <<csupports, cerror, cresult>>

\* the extraction: the GenerationResult, or the ValueError propagates
ComplExtract ==
    /\ cpc = "extract"
    /\ cresult' = Extract(cmessage)
    /\ cpc' = "idle"
    /\ UNCHANGED <<csupports, cinvocations, cerror, csource, cmessage>>

InitCompl ==
    /\ cpc = "idle"
    /\ csupports = FALSE
    /\ cinvocations = 0
    /\ cerror = <<>>
    /\ csource = NoSource
    /\ cmessage = Response(NoSource)
    /\ cresult = NoCompletion

NextCompl ==
    \/ \E supports_tools \in BOOLEAN : ComplStart(supports_tools)
    \/ \E msg \in CompletionErrors : ComplInvokeRaises(msg)
    \/ ComplRetryRaises
    \/ \E source \in Sources : ComplInvokeReturns(source)
    \/ ComplExtract

\* -------------------------------------------------------- model resolution
\* DEFAULT_FACTOID_MODEL
DefaultFactoidModel == "openai/gpt-4o-mini"

\* _random_openrouter_model: the ids random.choice may return
RandomOpenrouterCandidates(catalog) ==
    IF ~catalog.ok THEN {} ELSE {item.id : item \in catalog.data}

\* _resolve_model_key: the model keys it may return
ResolveModelKey(preferred_model, catalog) ==
    IF preferred_model # "" THEN {preferred_model}
    ELSE IF RandomOpenrouterCandidates(catalog) # {}
         THEN RandomOpenrouterCandidates(catalog)
         ELSE {DefaultFactoidModel}

\* `if preferred_model: return preferred_model` comes before the fetch
FetchesCatalog(preferred_model) == preferred_model = ""

Callers == {"generator", "chat"}

NoCatalog == [ok |-> FALSE, data |-> {}]

\* a resolution begins
ResolveCall(caller, preferred_model) ==
    /\ mpc = "idle"
    /\ mcaller' = caller
    /\ mpreferred' = preferred_model
    /\ mfetched' = FALSE
    /\ mcatalog' = NoCatalog
    /\ mpc' = "called"
    /\ UNCHANGED mresult

\* fetch_openrouter_models inside the try of the random-model helper
ResolveFetch(catalog) ==
    /\ mpc = "called"
    /\ FetchesCatalog(mpreferred)
    /\ mfetched' = TRUE
    /\ mcatalog' = catalog
    /\ mpc' = "fetched"
    /\ UNCHANGED <<mcaller, mpreferred, mresult>>

\* the resolution returns
ResolveReturn ==
    /\ \/ mpc = "called" /\ ~FetchesCatalog(mpreferred)
       \/ mpc = "fetched"
    /\ mresult' \in IF mcaller = "chat"
                    THEN ResolveChat(mpreferred, mcatalog)
                    ELSE ResolveModelKey(mpreferred, mcatalog)
    /\ mpc' = "idle"
    /\ UNCHANGED <<mcaller, mpreferred, mfetched, mcatalog>>

InitResolve ==
    /\ mpc = "idle"
    /\ mcaller = "none"
    /\ mpreferred = ""
    /\ mfetched = FALSE
    /\ mcatalog = NoCatalog
    /\ mresult = ""

NextResolve ==
    \/ \E caller \in Callers, preferred_model \in ModelKeys :
          ResolveCall(caller, preferred_model)
    \/ \E catalog \in Catalogs : ResolveFetch(catalog)
    \/ ResolveReturn

\* ------------------------------------------- requests sharing a cost guard
\* the costs of the requests in flight that evaluate allowed
Pending ==
    LET RECURSIVE Sum(_)
        Sum(S) == IF S = {} THEN 0
                  ELSE LET p == CHOOSE x \in S : TRUE
                       IN  (IF wpc[p] = "idle" THEN 0 ELSE wcost[p]) + Sum(S \ {p})
    IN  Sum(Procs)

\* decision = guard.evaluate(profile, expected_cost); a denied request raises
\* CostBudgetExceededError and ends
WorkerEvaluate(p, profile, cost) ==
    /\ wpc[p] = "idle"
    /\ TotalRecorded + Pending + cost <= MaxUsage
    /\ LET d == Decide(profile_budgets, profile_usage, profile, cost)
       IN  /\ wpc' = [wpc EXCEPT ![p] = IF d[1] THEN "allowed" ELSE "idle"]
           /\ wprofile' = [wprofile EXCEPT ![p] = IF d[1] THEN profile ELSE "default"]
           /\ wcost' = [wcost EXCEPT ![p] = IF d[1] THEN cost ELSE 0]
           /\ decision' = [NoDecision EXCEPT !.kind = "decided",
                                             !.profile = profile,
                                             !.cost = cost,
                                             !.allowed = d[1]]
    /\ UNCHANGED <<guardKind, profile_budgets, profile_usage, redis_usage,
                   remaining, recorded, seen>>

\* the work between evaluate and record fails: the request ends, no record
WorkerFails(p) ==
    /\ wpc[p] = "allowed"
    /\ wpc' = [wpc EXCEPT ![p] = "idle"]
    /\ wprofile' = [wprofile EXCEPT ![p] = "default"]
    /\ wcost' = [wcost EXCEPT ![p] = 0]
    /\ UNCHANGED costVars

\* guard.record(profile, cost) after the work succeeded
WorkerRecord(p) ==
    /\ wpc[p] = "allowed"
    /\ profile_usage' = RecordedUsage(profile_usage, wprofile[p], wcost[p])
    /\ recorded' = Put(recorded, wprofile[p],
                       Get(recorded, wprofile[p], 0) + wcost[p])
    /\ wpc' = [wpc EXCEPT ![p] = "idle"]
    /\ wprofile' = [wprofile EXCEPT ![p] = "default"]
    /\ wcost' = [wcost EXCEPT ![p] = 0]
    /\ decision' = NoDecision
    /\ UNCHANGED <<guardKind, profile_budgets, redis_usage, remaining, seen>>

InitWorkers ==
    /\ wpc = [p \in Procs |-> "idle"]
    /\ wprofile = [p \in Procs |-> "default"]
    /\ wcost = [p \in Procs |-> 0]

NextWorkers ==
    \/ \E p \in Procs, profile \in CostProfiles, cost \in 0..MaxCost :
          WorkerEvaluate(p, profile, cost)
    \/ \E p \in Procs : WorkerFails(p)
    \/ \E p \in Procs : WorkerRecord(p)

\* ------------------------------------------------------- capability cache
\* base URLs a caller may pass: "u/" is "u" with a trailing slash
BaseUrls == {"u", "u/", "v"}

\* _normalise_base_url: base_url.rstrip("/")
NormaliseBaseUrl(base_url) == IF base_url = "u/" THEN "u" ELSE base_url

\* the model keys model_supports_tools is asked about: "vendor/unlisted" is in
\* no catalog
AskedModels == {item.id : item \in CatalogItems} \cup {"vendor/unlisted"}

\* _cache_model_capabilities: one entry per model id of the payload
CacheModelCapabilities(cache, base_url, data) ==
    LET base == NormaliseBaseUrl(base_url)
        keys == {<<base, item.id>> : item \in data}
    IN  [k \in DOMAIN cache \cup keys |->
            IF k \in keys
            THEN (CHOOSE item \in data : item.id = k[2]).tools
            ELSE cache[k]]

\* the cache after fetch_openrouter_models, which raises or stores the payload
AfterFetch(cache, base_url, catalog) ==
    IF catalog.ok THEN CacheModelCapabilities(cache, base_url, catalog.data)
    ELSE cache

NoAnswer == [model |-> "", base_url |-> "", answer |-> FALSE, fetches |-> 0,
             after |-> FALSE]

\* fetch_openrouter_models called by a resolver
FetchOpenrouterModels(base_url, catalog) ==
    /\ tool_support' = AfterFetch(tool_support, base_url, catalog)
    /\ tsfetched' = IF catalog.ok THEN tsfetched \cup {NormaliseBaseUrl(base_url)}
                    ELSE tsfetched
    /\ tsanswer' = NoAnswer

\* model_supports_tools answers from the cache
IsCached(cache, model, base_url) ==
    <<NormaliseBaseUrl(base_url), model>> \in DOMAIN cache

\* model_supports_tools: a cached key is answered at once; otherwise the
\* catalog is fetched and the key looked up again, False when still missing
ModelSupportsTools(model, base_url, catalog) ==
    LET key == <<NormaliseBaseUrl(base_url), model>>
        after == NormaliseBaseUrl(base_url) \in tsfetched
    IN  IF IsCached(tool_support, model, base_url)
        THEN /\ tsanswer' = [model |-> model, base_url |-> base_url,
                             answer |-> tool_support[key], fetches |-> 0,
                             after |-> after]
             /\ UNCHANGED <<tool_support, tsfetched>>
        ELSE /\ tool_support' = AfterFetch(tool_support, base_url, catalog)
             /\ tsfetched' = IF catalog.ok
                             THEN tsfetched \cup {NormaliseBaseUrl(base_url)}
                             ELSE tsfetched
             /\ tsanswer' = [model |-> model, base_url |-> base_url,
                             answer |-> IF key \in DOMAIN tool_support'
                                        THEN tool_support'[key] ELSE FALSE,
                             fetches |-> 1, after |-> after]

\* ------------------------------------- the two limiters on the same checks
\* time.time() of the next check: the same reading again, or a later one
Delays == 0..Window

NoChecks == [kind |-> "none", mem |-> "", redis |-> "", memCount |-> 0,
             redisCount |-> 0, delay |-> 0]

\* InMemoryRateLimiter.check at time t on deque entries: <<decision, deque>>
MemDecide(entries, t) ==
    LET kept == Prune(entries, t - Window)
    IN  IF AtLimit(Len(kept), Limit)
        THEN <<"exceeded", kept>>
        ELSE <<"ok", Append(kept, t)>>

\* RedisRateLimiter.check at time t with no command failing and no other
\* client in between: <<decision, scores, TTL deadline>>
RedisDecide(scores, expiry, t) ==
    LET live == IF expiry # -1 /\ expiry <= t THEN {} ELSE scores
        kept == ZRemRangeByScore(live, t - Window)
    IN  IF AtLimit(Cardinality(kept), Limit)
        THEN <<"exceeded", kept, IF kept = {} THEN -1 ELSE expiry>>
        ELSE <<"ok", kept \cup {t}, t + Window>>

\* limiter.check(bucket, config) on both limiters with the same time reading
TwinCheck(delay) ==
    /\ tnow + delay <= MaxTime
    /\ tnow' = tnow + delay
    /\ LET m == MemDecide(tmem, tnow + delay)
           r == RedisDecide(tzset, tzexpire, tnow + delay)
       IN /\ tmem' = m[2]
          /\ tzset' = r[2]
          /\ tzexpire' = r[3]
          /\ tlast' = [kind |-> "checked", mem |-> m[1], redis |-> r[1],
                       memCount |-> Len(m[2]), redisCount |-> Cardinality(r[2]),
                       delay |-> delay]

InitTwin ==
    /\ tnow = 1
    /\ tmem = <<>>
    /\ tzset = {}
    /\ tzexpire = -1
    /\ tlast = NoChecks

NextTwin == \E delay \in Delays : TwinCheck(delay)

InitCache ==
    /\ tool_support = [k \in {} |-> FALSE]
    /\ tsfetched = {}
    /\ tsanswer = NoAnswer

NextCache ==
    \/ \E base_url \in BaseUrls, catalog \in Catalogs :
          FetchOpenrouterModels(base_url, catalog)
    \/ \E model \in AskedModels, base_url \in BaseUrls, catalog \in Catalogs :
          ModelSupportsTools(model, base_url, catalog)

\* ------------------------------------------------------- specifications
InitLimiter ==
    /\ now = 0
    /\ backend \in {"memory", "redis"}
    /\ buckets = [b \in Buckets |-> <<>>]
    /\ zset = [b \in Buckets |-> {}]
    /\ zexpire = [b \in Buckets |-> -1]
    /\ rpc = [p \in Procs |-> "idle"]
    /\ rnow = [p \in Procs |-> 0]
    /\ rbucket = [p \in Procs |-> "generate:c1"]
    /\ result = NoResult
    /\ admitted = [b \in Buckets |-> {}]
    /\ stored = [b \in Buckets |-> {}]
    /\ rejected = {}
    /\ bucket_keys = {}
    /\ counted = NoCount
    /\ due = [b \in Buckets |-> -1]

NextLimiter ==
    \/ Tick
    \/ \E b \in Buckets : MemGetCount(b)
    \/ \E b \in SharedBuckets, ok \in BOOLEAN : RedisGetCount(b, ok)
    \/ \E b \in Buckets : MemCheck(b)
    \/ \E p \in Procs, b \in SharedBuckets : RedisStart(p, b)
    \/ \E p \in Procs : RedisPruneCount(p)
    \/ \E p \in Procs, applied \in BOOLEAN : RedisPruneCountFails(p, applied)
    \/ \E p \in Procs : RedisOldest(p)
    \/ \E p \in Procs : RedisOldestFails(p)
    \/ \E p \in Procs : RedisInsert(p)
    \/ \E p \in Procs, applied \in BOOLEAN : RedisInsertFails(p, applied)

\* a generate_factoid caller's guard: CostGuard(DefaultBudgets) after the
\* successful generations counted in `successes`
InitCallerGuard ==
    /\ guardKind = "memory"
    /\ profile_budgets = DefaultBudgets
    /\ profile_usage = [p \in GenProfiles |-> UnitCost * successes[p]]
    /\ redis_usage = [p \in {} |-> 0]
    /\ decision = NoDecision
    /\ remaining = NoRemaining
    /\ recorded = [p \in {} |-> 0]
    /\ seen = [p \in {} |-> 0]

\* the rate limiters alone
LimiterInit ==
    /\ InitLimiter /\ InitGen /\ InitCallerGuard /\ InitAgent /\ InitCompl /\ InitResolve /\ InitWorkers /\ InitCache /\ InitTwin
    /\ api_key_set = TRUE /\ successes["anonymous"] = 0

SpecLimiter ==
    LimiterInit
    /\ [][NextLimiter /\ UNCHANGED <<costVars, genVars, agentVars, complVars, resolveVars, workerVars, cacheVars, twinVars>>]_vars

\* the cost guards alone
CostInit ==
    /\ InitLimiter /\ InitCost /\ InitGen /\ InitAgent /\ InitCompl /\ InitResolve /\ InitWorkers /\ InitCache /\ InitTwin
    /\ backend = "memory" /\ api_key_set = TRUE /\ successes["anonymous"] = 0

SpecCost ==
    CostInit
    /\ [][NextCost /\ UNCHANGED <<limiterVars, genVars, agentVars, complVars, resolveVars, workerVars, cacheVars, twinVars>>]_vars

\* generate_factoid calls, one after the other, on the in-memory limiter
GenInit ==
    /\ InitLimiter /\ InitGen /\ InitCallerGuard /\ InitAgent /\ InitCompl /\ InitResolve /\ InitWorkers /\ InitCache /\ InitTwin
    /\ backend = "memory"

SpecGen ==
    GenInit /\ [][NextGen /\ UNCHANGED <<agentVars, complVars, resolveVars, workerVars, cacheVars, twinVars>>]_vars

\* chat requests of one session, one after the other
AgentInit ==
    /\ InitLimiter /\ InitGen /\ InitCallerGuard /\ InitAgent /\ InitCompl /\ InitResolve /\ InitWorkers /\ InitCache /\ InitTwin
    /\ backend = "memory" /\ api_key_set = TRUE /\ successes["anonymous"] = 0

SpecAgent ==
    AgentInit
    /\ [][NextAgent /\ UNCHANGED <<limiterVars, costVars, genVars, complVars, resolveVars, workerVars, cacheVars, twinVars>>]_vars

\* generate_factoid_completion calls, one after the other
ComplInit ==
    /\ InitLimiter /\ InitGen /\ InitCallerGuard /\ InitAgent /\ InitCompl /\ InitResolve /\ InitWorkers /\ InitCache /\ InitTwin
    /\ backend = "memory" /\ api_key_set = TRUE /\ successes["anonymous"] = 0

SpecCompl ==
    ComplInit
    /\ [][NextCompl /\ UNCHANGED <<limiterVars, costVars, genVars, agentVars, resolveVars, workerVars, cacheVars, twinVars>>]_vars

\* model resolutions, one after the other
ResolveInit ==
    /\ InitLimiter /\ InitGen /\ InitCallerGuard /\ InitAgent /\ InitCompl /\ InitResolve /\ InitWorkers /\ InitCache /\ InitTwin
    /\ backend = "memory" /\ api_key_set = TRUE /\ successes["anonymous"] = 0

SpecResolve ==
    ResolveInit
    /\ [][NextResolve /\ UNCHANGED <<limiterVars, costVars, genVars, agentVars,
                                     complVars, workerVars, cacheVars, twinVars>>]_vars

\* requests that share one in-memory CostGuard({"default": Budget}) and
\* interleave their steps
SharedInit ==
    /\ InitLimiter /\ InitGen /\ InitAgent /\ InitCompl /\ InitResolve /\ InitWorkers /\ InitCache /\ InitTwin
    /\ InitCost /\ guardKind = "memory"
    /\ backend = "memory" /\ api_key_set = TRUE /\ successes["anonymous"] = 0

SpecShared ==
    SharedInit
    /\ [][NextWorkers /\ UNCHANGED <<limiterVars, genVars, agentVars, complVars,
                                     resolveVars, cacheVars, twinVars>>]_vars

\* one sequence of checks given to an in-memory and to a Redis limiter
TwinInit ==
    /\ InitLimiter /\ InitGen /\ InitCallerGuard /\ InitAgent /\ InitCompl /\ InitResolve
    /\ InitWorkers /\ InitCache /\ InitTwin
    /\ backend = "memory" /\ api_key_set = TRUE /\ successes["anonymous"] = 0

SpecTwin ==
    TwinInit
    /\ [][NextTwin /\ UNCHANGED <<limiterVars, costVars, genVars, agentVars,
                                  complVars, resolveVars, workerVars, cacheVars>>]_vars

\* catalog fetches and model_supports_tools calls, one after the other
CacheInit ==
    /\ InitLimiter /\ InitGen /\ InitCallerGuard /\ InitAgent /\ InitCompl /\ InitResolve
    /\ InitWorkers /\ InitCache /\ InitTwin
    /\ backend = "memory" /\ api_key_set = TRUE /\ successes["anonymous"] = 0

SpecCache ==
    CacheInit
    /\ [][NextCache /\ UNCHANGED <<limiterVars, costVars, genVars, agentVars,
                                   complVars, resolveVars, workerVars, twinVars>>]_vars

\* ------------------------------------------------------ rate limiter claims
\* C1: with the in-memory limiter the number of admitted timestamps newer than
\* now - window never exceeds the limit, and a check made when `limit` admitted
\* timestamps are already inside the window raises RateLimitExceeded with
\* retry_after >= 0.
C1_WindowNeverExceedsLimit ==
    backend = "memory" =>
        /\ \A b \in Buckets : AdmittedInWindow(b, now) <= Limit
        /\ (result.kind # "none" /\ result.before >= Limit) =>
              (result.kind = "exceeded" /\ result.retry_after >= 0)

\* a check found the window full and was rejected with a positive retry_after
C1_Witness ==
    /\ backend = "memory"
    /\ result.kind = "exceeded"
    /\ result.before = Limit
    /\ result.retry_after > 0

\* C2: with the Redis limiter the number of admissions whose timestamps lie
\* inside one window never exceeds the limit, however the workers' Redis
\* round-trips interleave.
C2_NoDoubleAdmission ==
    backend = "redis" =>
        \A b \in Buckets, t \in Time :
            Cardinality({s \in admitted[b] : t - Window < s /\ s <= t}) <= Limit

C4_RedisFailsClosed ==
    result.faulted => (result.kind = "exceeded" /\ result.retry_after = 0)

\* -------------------------------------------------------- cost guard claims
\* C5: CostGuard.evaluate(profile, c) on a profile with budget B and recorded
\* usage U allows exactly when c <= B - U, reports B - U - c when it allows and
\* max(B - U, 0) when it denies; a profile without budget is allowed with no
\* remaining budget known; evaluate leaves the usage as it was.
C5_EvaluateDecision ==
    (guardKind = "memory" /\ decision.kind = "decided") =>
        /\ decision.used = decision.usageBefore
        /\ Get(profile_usage, decision.profile, 0) = decision.usageBefore
        /\ IF decision.profile \in DOMAIN profile_budgets
           THEN LET B == profile_budgets[decision.profile]
                    U == decision.recorded
                IN /\ decision.allowed <=> (decision.cost <= B - U)
                   /\ decision.known
                   /\ decision.allowed => decision.remaining_budget = B - U - decision.cost
                   /\ ~decision.allowed => decision.remaining_budget = Max(B - U, 0)
           ELSE decision.allowed /\ ~decision.known

\* after some usage was recorded, a cost the budget alone would cover is denied
C5_Witness ==
    /\ guardKind = "memory"
    /\ decision.kind = "decided"
    /\ ~decision.allowed
    /\ decision.recorded > 0
    /\ decision.cost <= Get(profile_budgets, decision.profile, 0)

\* C6: within a budget epoch the usage a later evaluate sees is never lower
\* than the usage an earlier evaluate saw, whatever was recorded or read in
\* between and whichever Redis reads and writes failed.
C6_UsageNeverDecreases ==
    (decision.kind = "decided" /\ decision.hadSeen) =>
        decision.used >= decision.seenBefore

\* ------------------------------------------------- generate_factoid claims
\* the call has performed the step
Did(step) == \E i \in DOMAIN gtrail : gtrail[i] = step

\* every occurrence of step b in the call came after an occurrence of step a
Before(a, b) ==
    \A j \in DOMAIN gtrail : gtrail[j] = b => \E i \in 1..(j - 1) : gtrail[i] = a

\* C7: within one generate_factoid call the rate-limit check has succeeded
\* before evaluate is attempted, evaluate has allowed before any catalog fetch,
\* row creation or model invocation, and a call rejected as RateLimited or
\* BudgetExceeded has done none of these and left no GenerationRequest row.
C7_ChecksBeforeWork ==
    /\ Did("evaluate") => (Before("check", "evaluate") /\ result.kind = "ok")
    /\ \A step \in {"fetch", "create", "invoke"} :
          Did(step) => (Before("evaluate", step) /\ gdecision.allowed)
    /\ goutcome \in {"RateLimited", "BudgetExceeded"} =>
          /\ ~Did("fetch") /\ ~Did("create") /\ ~Did("invoke")
          /\ grequest.status = "none"

\* a call passed the rate check and was rejected by the budget evaluation
C7_Witness ==
    /\ goutcome = "BudgetExceeded"
    /\ gtrail = <<"check", "evaluate">>
    /\ grequest.status = "none"

\* C8: guard.record is called once when the call returns a factoid (after
\* invocation and persistence) and never otherwise: the usage of the call's
\* profile is its usage at the start plus one unit cost on success, and its
\* usage at the start on every other path.
C8_ChargedOnlyOnSuccess ==
    /\ gcharges = (IF goutcome = "Factoid" THEN 1 ELSE 0)
    /\ Get(GuardUsage, gargs.profile, 0) = gstart + UnitCost * gcharges
    /\ Did("record") =>
          /\ Before("invoke", "record") /\ Before("persist", "record")
          /\ grequest.status = "succeeded"

\* a call on a guard with earlier usage returned a factoid and charged once
C8_Witness ==
    /\ goutcome = "Factoid"
    /\ gargs.cost_guard
    /\ gstart > 0
    /\ profile_usage[gargs.profile] = gstart + UnitCost

\* C9: a call that passed both checks and then failed leaves its
\* GenerationRequest row FAILED with the error stored, and no row of an ended
\* call is PENDING or RUNNING.
C9_FailuresAreRecorded ==
    /\ (gpc = "idle" /\ goutcome \in {"GenerationFailed", "Error"}) =>
          grequest = FailedRequest
    /\ \A row \in requests : row.status \in {"succeeded", "failed"}

\* C10: the budget evaluation of a call sees the usage of all earlier
\* successful calls for the profile, whether or not the caller passed a guard,
\* and rejects exactly when the unit cost no longer fits.
C10_CumulativeBudget ==
    Did("evaluate") =>
        /\ gdecision.used = UnitCost * gdecision.successes
        /\ gdecision.allowed <=>
              (UnitCost <= DefaultBudgets[gargs.profile]
                              - UnitCost * gdecision.successes)

\* ------------------------------------------------------- chat agent claims
\* C11 (as stated): a run_factoid_agent call makes at most two attempts; a
\* call whose first attempt failed with a throttling message has made a
\* second attempt by the time it raises; a second attempt runs on the fallback
\* model, on the same input history, and only after a throttling failure.
C11_ThrottledRetriesOnce ==
    /\ Len(aattempts) <= 2
    /\ (aoutcome = "raised" /\ IsThrottling(aerror)) => Len(aattempts) = 2
    /\ Len(aattempts) = 2 =>
          /\ aattempts[2].model = FallbackModel
          /\ aattempts[2].input = aattempts[1].input
          /\ aattempts[2].input = ahistory
          /\ IsThrottling(aerror)

\* C11 (amended): the same, where the retry is required only of a call whose
\* resolved model is not the fallback model; a call resolved to the fallback
\* model never makes a second attempt.
C11_ThrottledRetriesOnceOnOtherModel ==
    /\ Len(aattempts) <= 2
    /\ (aoutcome = "raised" /\ IsThrottling(aerror) /\ aresolved # FallbackModel)
          => Len(aattempts) = 2
    /\ aresolved = FallbackModel => Len(aattempts) <= 1
    /\ Len(aattempts) = 2 =>
          /\ aattempts[2].model = FallbackModel
          /\ aattempts[2].input = aattempts[1].input
          /\ aattempts[2].input = ahistory
          /\ IsThrottling(aerror)

\* a throttled call was retried on the fallback model and the retry failed too
C11_Witness ==
    /\ aoutcome = "raised"
    /\ Len(aattempts) = 2
    /\ aattempts[1].model # FallbackModel
    /\ IsThrottling(aerror)

Extracted == cpc = "idle" /\ cresult.kind \in {"payload", "invalid"}

\* the validation rules of a factoid object
ValidObject(obj) ==
    /\ Validates(obj)
    /\ Strip(obj["text"].s) # <<>>
    /\ obj["subject"].s # <<>> /\ StrLen(obj["subject"].s) <= SubjectMax
    /\ obj["emoji"].s # <<>> /\ StrLen(obj["emoji"].s) <= EmojiMax

\* the response carries the object in one of the encodings of the round trip
RoundTripEncoding(source) ==
    \/ source.tool = "none" /\ source.content \in {"plain", "fenced", "fenced_json"}
    \/ source.tool \in {"dict", "str"} /\ source.content = "empty"

\* C13: a valid object comes back as the same (text, subject, emoji), fields
\* trimmed, from plain JSON content, from a fenced block and from the
\* arguments of a make_factoid / get_factoid call (object or JSON string).
C13_ExtractionRoundTrip ==
    (Extracted /\ ValidObject(csource.obj) /\ RoundTripEncoding(csource)) =>
        /\ cresult.kind = "payload"
        /\ cresult.text = Strip(csource.obj["text"].s)
        /\ cresult.subject = Strip(csource.obj["subject"].s)
        /\ cresult.emoji = Strip(csource.obj["emoji"].s)

\* the content of the response is JSON text with all three fields as strings
ContentCarriesObject(source) ==
    /\ source.content \in {"plain", "fenced", "fenced_json", "parts"}
    /\ Validates(source.obj)

\* C14: a make_factoid call with invalid arguments falls through to the
\* content of the same response: the content's payload when the content is
\* valid, InvalidStructure only when it is not; valid tool arguments win over
\* any content.
C14_ToolPathFallsThrough ==
    Extracted =>
        /\ (csource.tool \in {"partial", "partial_then_sample"}
              /\ ContentCarriesObject(csource)) =>
                 /\ cresult.kind = "payload" /\ cresult.path = "content"
                 /\ cresult.text = Strip(csource.obj["text"].s)
        /\ (csource.tool \in {"partial", "partial_then_sample"}
              /\ cresult.kind = "invalid") => ~ContentCarriesObject(csource)
        /\ (csource.tool \in {"dict", "str"} /\ Validates(csource.obj)) =>
                 /\ cresult.kind = "payload" /\ cresult.path = "tool"
                 /\ cresult.text = Strip(csource.obj["text"].s)
        /\ csource.tool = "sample" => cresult = Stripped("tool", SampleObject)

\* C15: a response without tool invocation whose content is free text, or
\* JSON that lacks one of the three fields, yields InvalidStructure and no
\* payload.
C15_UnstructuredRejected ==
    (Extracted /\ csource.tool = "none"
        /\ (csource.content \in {"free", "empty"}
              \/ \E name \in {"text", "subject", "emoji"} :
                     name \notin DOMAIN csource.obj)) =>
        cresult.kind = "invalid"

\* free text without a tool invocation was rejected, and so was JSON without
\* its emoji
C15_Witness ==
    /\ Extracted
    /\ csource.tool = "none"
    /\ csource.content = "plain"
    /\ DOMAIN csource.obj = {"text", "subject"}
    /\ cresult.kind = "invalid"

\* C16: every payload the extractor returns has a non-blank text, a subject
\* of 1..255 characters and an emoji of 1..16 characters.
C16_PayloadsAreValid ==
    cresult.kind = "payload" =>
        /\ cresult.text # <<>>
        /\ cresult.subject # <<>> /\ StrLen(cresult.subject) <= SubjectMax
        /\ cresult.emoji # <<>> /\ StrLen(cresult.emoji) <= EmojiMax

\* C17: FactoidAgent.run stops within the hard ceiling of 6 iterations: the
\* graph never executes more super-steps than the recursion_limit the code
\* names, and a run that would need more ends by raising, so that a history
\* cut short (one whose last message is not a model turn without tool calls)
\* is never returned as an answer.
C17_StopsWithinCeilingOfSix ==
    /\ asteps <= InvokeConfig.configurable.recursion_limit
    /\ aoutcome = "returned" =>
          /\ areturned # <<>>
          /\ areturned[Len(areturned)] = AIMessage(<<>>)
    /\ (aoutcome = "raised" /\ aerror = RecursionMessage) => areturned = <<>>

\* the calls of the model turn at position i of msgs are answered, in order,
\* by the tool results right after it, a failed call by an error-marked one
Answered(msgs, i, search) ==
    LET calls == msgs[i].calls
    IN  /\ Len(msgs) >= i + Len(calls)
        /\ \A k \in 1..Len(calls) :
               msgs[i + k] = ToolMessage(calls[k].id,
                                         calls[k].name # "web_search" \/ search # "ok")

\* C18: a tool failure never aborts the agent loop: once the tool node has
\* run, every call of the model turn (also a call whose tool raised, was not
\* configured or is not registered) has its tool-result turn in the history,
\* error-marked when the call failed; the model is invoked next; and a run
\* only ever raises the error of a model invocation or of the step limit.
C18_ToolFailureNeverAborts ==
    /\ \A i \in (Len(ahistory) + 1)..Len(amessages) :
           ( /\ amessages[i].role = "ai"
             /\ amessages[i].calls # <<>>
             /\ ~(i = Len(amessages) /\ apc \in {"tools", "idle"}) )
           => Answered(amessages, i, asearch)
    /\ ( /\ aoutcome = "running"
         /\ amessages # <<>>
         /\ amessages[Len(amessages)].role = "tool" ) => apc = "agent"
    /\ aoutcome = "raised" => aerror \in ErrorMessages \cup {RecursionMessage}

\* a run whose search backend raised went on and returned an answer
C18_Witness ==
    /\ asearch = "raises"
    /\ aoutcome = "returned"
    /\ \E i \in 1..Len(areturned) :
           areturned[i].role = "tool" /\ areturned[i].error

\* a history is well formed: every tool result has a model turn before it,
\* and the nearest one carries a tool call with the id the result is keyed by
WellFormed(msgs) ==
    \A j \in 1..Len(msgs) :
        msgs[j].role = "tool" =>
            \E i \in 1..(j - 1) :
                /\ msgs[i].role = "ai"
                /\ \A k \in (i + 1)..(j - 1) : msgs[k].role # "ai"
                /\ msgs[i].calls # <<>>
                /\ \E c \in 1..Len(msgs[i].calls) : msgs[i].calls[c].id = msgs[j].key

\* C19: every history the model is invoked on, every history a run returns
\* and every history rebuilt from the stored messages is well formed: each
\* tool result is keyed by an invocation id of the nearest preceding model
\* turn, which carries at least one tool invocation.
C19_HistoriesWellFormed ==
    /\ WellFormed(amessages)
    /\ WellFormed(areturned)
    /\ WellFormed(ahistory)
    /\ WellFormed(HistoryToMessages(chat_store))

\* the model is invoked on a history rebuilt from stored messages that holds
\* a tool result, after a tool round of the request itself
C19_Witness ==
    /\ apc = "agent"
    /\ \E j \in 1..Len(ahistory) : ahistory[j].role = "tool"
    /\ Len(amessages) > Len(ahistory)
    /\ amessages[Len(amessages)].role = "tool"

\* ------------------------------------------------- model resolution claims
\* a resolution has ended
Resolved == mpc = "idle" /\ mcaller # "none"

\* the static default of the caller
StaticDefault(caller) ==
    IF caller = "chat" THEN AgentDefaultModel ELSE DefaultFactoidModel

\* the catalog fetch failed or gave no candidate for the caller
NoCandidate(caller, catalog) ==
    \/ ~catalog.ok
    \/ /\ caller = "chat"
       /\ \A item \in catalog.data : ~item.tools
    \/ /\ caller = "generator"
       /\ catalog.data = {}

\* C20: a resolution given a non-empty preferred model returns it unchanged
\* and fetches no catalog; a resolution given no preference whose catalog
\* fetch fails or has no candidate returns the static default model key; a
\* resolution always returns a model key (it never raises).
C20_ResolutionHonoursPreference ==
    Resolved =>
        /\ mresult # ""
        /\ mpreferred # "" => (mresult = mpreferred /\ ~mfetched)
        /\ (mpreferred = "" /\ NoCandidate(mcaller, mcatalog)) =>
              (mfetched /\ mresult = StaticDefault(mcaller))

\* the chat resolution, given no preference, met a failing catalog fetch and
\* returned the default
C20_Witness ==
    /\ Resolved
    /\ mcaller = "chat"
    /\ mpreferred = ""
    /\ mfetched /\ ~mcatalog.ok
    /\ mresult = AgentDefaultModel

\* the tool-capable models of a catalog that are non-free and from a
\* well-known provider
PreferredSubset(catalog) ==
    {item.id : item \in {i \in catalog.data :
                             i.tools /\ ~IsFree(i.id) /\ KnownProvider(i.id)}}

\* C21: a resolution given no preference whose catalog fetch succeeded and
\* listed a tool-capable model returns a model of the catalog whose capability
\* flag is set, and returns a model of the preferred subset (tool-capable,
\* non-free, well-known provider) whenever that subset is not empty.
C21_CapabilityAwareChoice ==
    ( /\ Resolved
      /\ mpreferred = ""
      /\ mfetched
      /\ mcatalog.ok
      /\ \E item \in mcatalog.data : item.tools )
    => /\ \E item \in mcatalog.data : item.id = mresult /\ item.tools
       /\ PreferredSubset(mcatalog) # {} => mresult \in PreferredSubset(mcatalog)

\* C24: in the chat API the agent runs only in a request whose rate check
\* succeeded; a request whose check was rejected stores no message, runs no
\* agent and is answered with status 429 and the limiter's retry_after value
\* unchanged.
C24_AgentOnlyAfterRateCheck ==
    /\ (apc # "idle" \/ aattempts # NoAttempts) => arate.kind = "ok"
    /\ arate.kind = "exceeded" =>
          /\ apc = "idle"
          /\ aattempts = NoAttempts
          /\ Len(chat_store) = arate.before
          /\ arate.status = 429
          /\ arate.payload_retry_after = arate.retry_after

\* C22: the Redis cost guard fails open. With Redis unavailable, evaluate
\* still returns a decision, made from the in-memory usage as it was, which it
\* leaves unchanged; record still adds the cost to the in-memory usage; and
\* remaining_budget still returns, computed from the in-memory usage.
C22_CostGuardFailsOpen ==
    [][ /\ \A p \in CostProfiles, c \in 0..MaxCost :
              /\ (decision'.kind = "decided" /\ decision'.profile = p
                    /\ decision'.cost = c /\ CostEvaluate(p, c, FALSE)) =>
                    /\ decision'.kind = "decided"
                    /\ decision'.used = Get(profile_usage, p, 0)
                    /\ decision'.allowed =
                          ( p \in DOMAIN profile_budgets =>
                              c <= profile_budgets[p] - Get(profile_usage, p, 0) )
                    /\ profile_usage' = profile_usage
              /\ (decision'.kind = "none" /\ remaining'.kind = "none"
                    /\ redis_usage' = redis_usage /\ CostRecord(p, c, FALSE)) =>
                    /\ p \in DOMAIN profile_usage'
                    /\ profile_usage'[p] = Get(profile_usage, p, 0) + c
        /\ \A p \in CostProfiles :
              (remaining'.kind = "returned" /\ CostRemaining(p, FALSE)) =>
                  /\ remaining'.kind = "returned"
                  /\ profile_usage' = profile_usage
                  /\ p \in DOMAIN profile_budgets =>
                        remaining'.value =
                            Max(profile_budgets[p] - Get(profile_usage, p, 0), 0)
      ]_vars

\* an evaluate of the Redis guard decided from an in-memory usage that differs
\* from the usage Redis holds: its read had failed
C22_Witness ==
    /\ guardKind = "redis"
    /\ decision.kind = "decided"
    /\ decision.profile \in DOMAIN redis_usage
    /\ decision.used # redis_usage[decision.profile]

\* C28: the budget is never overspent: when every record follows an evaluate
\* of the same request that returned allowed, the costs recorded for a profile
\* never sum to more than the profile's budget, also when requests that share
\* the guard interleave.
C28_BudgetNeverOverspent ==
    \A profile \in DOMAIN profile_budgets :
        Get(recorded, profile, 0) <= profile_budgets[profile]

\* C25: get_count is read-only on both backends: a get_count step leaves the
\* stored timestamps of every bucket unchanged, adds no key to the in-memory
\* dict, leaves the Redis sorted sets and their expiry unchanged, and so
\* leaves everything a later check reads as it was.
C25_GetCountReadOnly ==
    [][(/\ counted'.kind = "count"
        /\ \/ \E b \in Buckets : MemGetCount(b)
           \/ \E b \in SharedBuckets, ok \in BOOLEAN : RedisGetCount(b, ok))
       => /\ buckets' = buckets
          /\ bucket_keys' = bucket_keys
          /\ zset' = zset
          /\ zexpire' = zexpire
          /\ due' = due]_vars

\* get_count has just answered for a key the in-memory dict does not hold,
\* while another bucket holds timestamps
C25_Witness ==
    /\ backend = "memory"
    /\ counted.kind = "count"
    /\ counted.bucket \notin bucket_keys
    /\ counted.value = 0
    /\ \E b \in bucket_keys : buckets[b] # <<>>

\* C29: get_count reflects the current window: its value is the number of
\* checks of the bucket admitted within the trailing window (a timestamp
\* exactly Window old may count or not), and it is 0 once more than a full
\* window has passed since the last admission.
C29_GetCountReflectsWindow ==
    counted.kind = "count"
        => /\ counted.atLeast <= counted.value
           /\ counted.value <= counted.atMost
           /\ counted.elapsed => counted.value = 0

\* C26: the retry_after of a rejected check (no Redis fault) is
\* max(oldest retained timestamp + window - now, 0), and a check of the bucket
\* made at the rejection time plus retry_after or later, with no admission in
\* between, is admitted.
C26_RetryAfterAccurate ==
    /\ (result.kind = "exceeded" /\ ~result.faulted)
            => result.retry_after \in result.expected
    /\ (result.kind \in {"ok", "exceeded"} /\ ~result.faulted /\ result.waited)
            => result.kind = "ok"

\* C27: the two backends are interchangeable: given the same sequence of
\* checks on one bucket with the same configuration and the same non-decreasing
\* times (the same reading twice and a reading exactly Window later included),
\* they take the same decision on every check and hold the same number of
\* timestamps after it.
C27_BackendsInterchangeable ==
    tlast.kind = "checked"
        => /\ tlast.mem = tlast.redis
           /\ tlast.memCount = tlast.redisCount

C23_CacheAnswersAfterFirstFetch ==
    (tsanswer.model # "" /\ tsanswer.after) => tsanswer.fetches = 0

====
